---- MODULE Spec2Model ----
(***************************************************************************)
(* The webhook subsystem of the AFM reference interpreters: the WebSub     *)
(* subscriber (subscribe / unsubscribe / verify_challenge), the background *)
(* subscribe_with_retry task, the application lifespans that start and     *)
(* stop it, and the GET / POST handlers of the webhook router.             *)
(*                                                                         *)
(* Optional values (str | None) are sequences: << >> is None, <<x>> is x.  *)
(* Header values and digests are sequences of one-character strings.       *)
(***************************************************************************)
EXTENDS Integers, Sequences, FiniteSets, TLC

VARIABLES
    variant,            \* which factory built the app, or "direct" API use
    topic,              \* WebSubSubscriber.topic
    hasSubscriber,      \* websub_subscriber is not None
    secret,             \* subscription.secret (optional string)
    verify_signatures,  \* create_webhook_router(verify_signatures=...)
    hasPrompt,          \* compiled_prompt is not None
    outputIsString,     \* signature.output.type == "string"
    verified,           \* WebSubSubscriber._verified
    challenge,          \* WebSubSubscriber._challenge (optional string)
    phase,              \* position of the lifespan context manager
    taskPc,             \* position of the subscribe_with_retry task
    attempt,            \* loop variable of subscribe_with_retry
    max_retries,        \* argument of subscribe_with_retry
    retry_delay,        \* argument of subscribe_with_retry
    subRequests,        \* subscribe requests sent to the hub
    accepted,           \* a subscribe request was answered 200/202/204
    sleeps,             \* the delays of the asyncio.sleep calls, in order
    unsubRequests,      \* unsubscribe requests sent to the hub
    raisedFrom,         \* functions an exception escaped from
    failure,            \* why startup or shutdown failed, "none" otherwise
    log,                \* kinds of log records written
    lastOp,             \* the operation that ran last
    req,                \* the last request or call and its arguments
    resp                \* the response or return value it got

vars == << variant, topic, hasSubscriber, secret, verify_signatures,
           hasPrompt, outputIsString, verified, challenge, phase, taskPc,
           attempt, max_retries, retry_delay, subRequests, accepted, sleeps,
           unsubRequests, raisedFrom, failure, log, lastOp, req, resp >>

cfgVars == << variant, topic, hasSubscriber, secret, verify_signatures,
              hasPrompt, outputIsString >>

subscriberVars == << verified, challenge >>

taskVars == << taskPc, attempt, max_retries, retry_delay, subRequests,
               accepted, sleeps >>

----------------------------------------------------------------------------
(* Bounds and program constants *)

MaxRetriesBound == 3        \* largest max_retries passed by a direct caller

DefaultMaxRetries == 3      \* subscribe_with_retry(max_retries=3)

DefaultRetryDelay == 5      \* subscribe_with_retry(retry_delay=5.0)

OtherRetryDelay == 1        \* a non-default retry_delay of a direct caller

None == << >>

Some(x) == << x >>

Topics == {"T1", "T2"}

Modes == {"subscribe", "unsubscribe", "denied"}

Challenges == {"", "abc123", "xyz"}

AppVariants == {"core_webhook", "core_unified", "cli_webhook"}

\* create_webhook_app's lifespan without the cancellation
CancellingVariants_unifiedOnly == {"core_unified"}

\* the lifespans that cancel the retry task at shutdown
CancellingVariants == {"core_webhook", "core_unified"}

AcceptedStatuses == {200, 202, 204}

HubStatuses == {200, 202, 204, 404, 500}

\* what an outbound hub request can end in: an HTTP response, or an
\* exception of httpx (connection failure, the 30 s timeout)
HubOutcomes ==
    [kind : {"response"}, code : HubStatuses]
        \cup [kind : {"ConnectError", "TimeoutException"}, code : {0}]

----------------------------------------------------------------------------
(* WebSubSubscriber *)

\* verify_challenge without the topic comparison
verify_challenge_anyTopic(v, c, mode, tpc, chal) ==
    IF mode = "subscribe"
    THEN [verified |-> TRUE, challenge |-> Some(chal), ret |-> Some(chal)]
    ELSE IF mode = "unsubscribe"
    THEN [verified |-> FALSE, challenge |-> c, ret |-> Some(chal)]
    ELSE [verified |-> v, challenge |-> c, ret |-> None]

\* verify_challenge whose unsubscribe branch forgets to clear _verified
verify_challenge_keepVerified(v, c, mode, tpc, chal) ==
    IF tpc # topic
    THEN [verified |-> v, challenge |-> c, ret |-> None]
    ELSE IF mode = "subscribe"
    THEN [verified |-> TRUE, challenge |-> Some(chal), ret |-> Some(chal)]
    ELSE IF mode = "unsubscribe"
    THEN [verified |-> v, challenge |-> c, ret |-> Some(chal)]
    ELSE [verified |-> v, challenge |-> c, ret |-> None]

\* verify_challenge: the new (verified, challenge) and the return value
verify_challenge(v, c, mode, tpc, chal) ==
    IF tpc # topic
    THEN [verified |-> v, challenge |-> c, ret |-> None]
    ELSE IF mode = "subscribe"
    THEN [verified |-> TRUE, challenge |-> Some(chal), ret |-> Some(chal)]
    ELSE IF mode = "unsubscribe"
    THEN [verified |-> FALSE, challenge |-> c, ret |-> Some(chal)]
    ELSE [verified |-> v, challenge |-> c, ret |-> None]

\* subscribe() without its `except Exception`
subscribe_noExcept(st, outcome) ==
    IF outcome.kind = "response" /\ outcome.code \in AcceptedStatuses
    THEN [ret |-> TRUE, raised |-> FALSE, log |-> {"subscribe_sent"},
          st |-> st]
    ELSE IF outcome.kind # "response"
    THEN [ret |-> FALSE, raised |-> TRUE, log |-> {}, st |-> st]
    ELSE [ret |-> FALSE, raised |-> FALSE, log |-> {"subscribe_failed"},
          st |-> st]

\* subscribe() that takes the hub's acceptance for the verification
subscribe_verifiesOnAccept(st, outcome) ==
    IF outcome.kind = "response" /\ outcome.code \in AcceptedStatuses
    THEN [ret |-> TRUE, raised |-> FALSE, log |-> {"subscribe_sent"},
          st |-> [st EXCEPT !.verified = TRUE]]
    ELSE IF outcome.kind # "response"
    THEN [ret |-> FALSE, raised |-> FALSE, log |-> {"subscribe_error"},
          st |-> st]
    ELSE [ret |-> FALSE, raised |-> FALSE, log |-> {"subscribe_failed"},
          st |-> st]

\* subscribe(): the result of the request given how the hub answered, and
\* the (verified, challenge) it leaves in the subscriber st
subscribe(st, outcome) ==
    IF outcome.kind = "response" /\ outcome.code \in AcceptedStatuses
    THEN [ret |-> TRUE, raised |-> FALSE, log |-> {"subscribe_sent"},
          st |-> st]
    ELSE IF outcome.kind # "response"
    THEN [ret |-> FALSE, raised |-> FALSE, log |-> {"subscribe_error"},
          st |-> st]
    ELSE [ret |-> FALSE, raised |-> FALSE, log |-> {"subscribe_failed"},
          st |-> st]

\* unsubscribe(): likewise
unsubscribe(st, outcome) ==
    IF outcome.kind = "response" /\ outcome.code \in AcceptedStatuses
    THEN [ret |-> TRUE, raised |-> FALSE, log |-> {"unsubscribe_sent"},
          st |-> st]
    ELSE IF outcome.kind # "response"
    THEN [ret |-> FALSE, raised |-> FALSE, log |-> {"unsubscribe_error"},
          st |-> st]
    ELSE [ret |-> FALSE, raised |-> FALSE, log |-> {"unsubscribe_warning"},
          st |-> st]

SubscriberState == [verified |-> verified, challenge |-> challenge]


----------------------------------------------------------------------------
(* subscribe_with_retry, run as a task (or awaited by a direct caller) *)

\* the guard of the sleep, off by one
ShouldSleep_afterLast(att, maxRetries) == att < maxRetries

\* `if attempt < max_retries - 1:` guards the sleep
ShouldSleep(att, maxRetries) == att < maxRetries - 1

\* the argument of asyncio.sleep in attempt att
SleepDelay(att, delay) == delay

TaskActive == taskPc \in {"pending", "requesting", "sleeping"}

\* a cancel() has been delivered to the task and its outcome is awaited
CancelPending == phase = "cancelling"

\* the task runs for the first time: range(max_retries) yields attempt 0 and
\* subscribe() posts the request, or the range is empty
TaskStart ==
    /\ taskPc = "pending"
    /\ ~CancelPending
    /\ IF max_retries > 0
       THEN /\ taskPc' = "requesting"
            /\ subRequests' = subRequests + 1
            /\ UNCHANGED log
       ELSE /\ taskPc' = "done"
            /\ log' = log \cup {"retries_exhausted"}
            /\ UNCHANGED subRequests
    /\ attempt' = 0
    /\ lastOp' = "task_start"
    /\ UNCHANGED << cfgVars, subscriberVars, phase, max_retries, retry_delay,
                    accepted, sleeps, unsubRequests, raisedFrom, failure,
                    req, resp >>

\* the awaited hub request of subscribe() ends; the loop body continues
HubSubscribeReply ==
    /\ taskPc = "requesting"
    /\ ~CancelPending
    /\ \E outcome \in HubOutcomes :
          LET r == subscribe(SubscriberState, outcome)
              success == ~r.raised /\ r.ret
              retryLog == IF r.raised THEN {"attempt_failed"} ELSE {}
          IN  /\ raisedFrom' = IF r.raised
                               THEN raisedFrom \cup {"subscribe"}
                               ELSE raisedFrom
              /\ verified' = r.st.verified
              /\ challenge' = r.st.challenge
              /\ req' = [op |-> "hub.mode=subscribe"]
              /\ resp' = [status |-> outcome.code, kind |-> outcome.kind]
              /\ IF success
                 THEN /\ taskPc' = "done"
                      /\ accepted' = TRUE
                      /\ log' = log \cup r.log
                      /\ UNCHANGED sleeps
                 ELSE IF ShouldSleep(attempt, max_retries)
                 THEN /\ taskPc' = "sleeping"
                      /\ sleeps' = Append(sleeps,
                                          SleepDelay(attempt, retry_delay))
                      /\ log' = log \cup r.log \cup retryLog
                      /\ UNCHANGED accepted
                 ELSE /\ taskPc' = "done"
                      /\ log' = log \cup r.log \cup retryLog
                                    \cup {"retries_exhausted"}
                      /\ UNCHANGED << accepted, sleeps >>
    /\ lastOp' = "hub_subscribe_reply"
    /\ UNCHANGED << cfgVars, phase, attempt, max_retries, retry_delay,
                    subRequests, unsubRequests, failure >>

\* asyncio.sleep(retry_delay) returns; the next iteration posts again
SleepDone ==
    /\ taskPc = "sleeping"
    /\ ~CancelPending
    /\ attempt' = attempt + 1
    /\ taskPc' = "requesting"
    /\ subRequests' = subRequests + 1
    /\ lastOp' = "sleep_done"
    /\ UNCHANGED << cfgVars, subscriberVars, phase, max_retries, retry_delay,
                    accepted, sleeps, unsubRequests, raisedFrom, failure,
                    log, req, resp >>

\* CancelledError is thrown into the task at its suspension point; neither
\* `except Exception` catches it, so the task ends cancelled
TaskCancelled ==
    /\ CancelPending
    /\ TaskActive
    /\ taskPc' = "cancelled"
    /\ lastOp' = "task_cancelled"
    /\ UNCHANGED << cfgVars, subscriberVars, phase, attempt, max_retries,
                    retry_delay, subRequests, accepted, sleeps,
                    unsubRequests, raisedFrom, failure, log, req, resp >>

\* a direct caller awaits subscribe_with_retry(subscriber, n, d)
CallSubscribeWithRetry ==
    /\ variant = "direct"
    /\ taskPc = "none"
    /\ \E n \in 0..MaxRetriesBound :
       \E d \in {DefaultRetryDelay, OtherRetryDelay} :
          /\ max_retries' = n
          /\ retry_delay' = d
    /\ taskPc' = "pending"
    /\ lastOp' = "call_subscribe_with_retry"
    /\ UNCHANGED << cfgVars, subscriberVars, phase, attempt, subRequests,
                    accepted, sleeps, unsubRequests, raisedFrom, failure,
                    log, req, resp >>

----------------------------------------------------------------------------
(* lifespan of create_webhook_app / create_unified_app *)

\* the end of the lifespan: create_unified_app disconnects the agent
LifespanEnd ==
    /\ phase' = "stopped"
    /\ IF variant = "core_unified"
       THEN \E disconnectOk \in BOOLEAN :
               failure' = IF disconnectOk THEN failure
                          ELSE "agent_disconnect"
       ELSE UNCHANGED failure

\* the unsubscribe step without the is_verified test
UnsubscribeIfVerified_always ==
    IF hasSubscriber
    THEN /\ phase' = "unsubscribing"
         /\ unsubRequests' = unsubRequests + 1
         /\ UNCHANGED failure
    ELSE /\ LifespanEnd
         /\ UNCHANGED unsubRequests

\* `if websub_subscriber and websub_subscriber.is_verified: await unsubscribe()`
UnsubscribeIfVerified ==
    IF hasSubscriber /\ verified
    THEN /\ phase' = "unsubscribing"
         /\ unsubRequests' = unsubRequests + 1
         /\ UNCHANGED failure
    ELSE /\ LifespanEnd
         /\ UNCHANGED unsubRequests

\* the part of the lifespan before `yield`
Startup ==
    /\ phase = "created"
    /\ \E connectOk \in BOOLEAN :
          IF variant = "core_unified" /\ ~connectOk
          THEN /\ phase' = "startup_failed"
               /\ failure' = "agent_connect"
               /\ UNCHANGED taskPc
          ELSE /\ phase' = "serving"
               /\ taskPc' = IF hasSubscriber THEN "pending" ELSE taskPc
               /\ UNCHANGED failure
    /\ max_retries' = DefaultMaxRetries
    /\ retry_delay' = DefaultRetryDelay
    /\ lastOp' = "startup"
    /\ UNCHANGED << cfgVars, subscriberVars, attempt, subRequests, accepted,
                    sleeps, unsubRequests, raisedFrom, log, req, resp >>

\* the part of the lifespan after `yield`, up to its first suspension
ShutdownBegin ==
    /\ phase = "serving"
    /\ IF variant \in CancellingVariants /\ TaskActive
       THEN /\ phase' = "cancelling"
            /\ UNCHANGED << unsubRequests, failure >>
       ELSE UnsubscribeIfVerified
    /\ lastOp' = "shutdown_begin"
    /\ UNCHANGED << cfgVars, subscriberVars, taskVars, raisedFrom, log,
                    req, resp >>

\* `await subscription_task` returns with CancelledError, which is passed
ShutdownResume ==
    /\ phase = "cancelling"
    /\ ~TaskActive
    /\ UnsubscribeIfVerified
    /\ lastOp' = "shutdown_resume"
    /\ UNCHANGED << cfgVars, subscriberVars, taskVars, raisedFrom, log,
                    req, resp >>

\* the awaited hub request of unsubscribe() ends; the lifespan finishes
HubUnsubscribeReply ==
    /\ phase = "unsubscribing"
    /\ \E outcome \in HubOutcomes :
          LET r == unsubscribe(SubscriberState, outcome)
          IN  /\ log' = log \cup r.log
              /\ verified' = r.st.verified
              /\ challenge' = r.st.challenge
              /\ req' = [op |-> "hub.mode=unsubscribe"]
              /\ resp' = [status |-> outcome.code, kind |-> outcome.kind]
              /\ IF r.raised
                 THEN /\ raisedFrom' = raisedFrom \cup {"unsubscribe"}
                      /\ phase' = "stopped"
                      /\ failure' = "unsubscribe_raised"
                 ELSE /\ LifespanEnd
                      /\ UNCHANGED raisedFrom
    /\ lastOp' = "hub_unsubscribe_reply"
    /\ UNCHANGED << cfgVars, taskVars, unsubRequests >>


----------------------------------------------------------------------------
(* verify_webhook_signature *)

NumBodies == 4              \* request bodies 1..NumBodies

Secrets == {"s1", "s2"}

Algorithms == {"sha1", "sha256", "sha512"}

\* str.lower() on the characters the model uses
LowerChar(c) ==
    CASE c = "S" -> "s" [] c = "H" -> "h" [] c = "A" -> "a"
      [] c = "B" -> "b" [] c = "M" -> "m" [] c = "D" -> "d"
      [] c = "F" -> "f"
      [] OTHER -> c

Lower(w) == [i \in 1..Len(w) |-> LowerChar(w[i])]

Range(w) == {w[i] : i \in 1..Len(w)}

\* characters outside ASCII (a header byte above 0x7f, decoded as latin-1)
NonAscii == {"e_acute"}

IsAscii(w) == \A i \in 1..Len(w) : w[i] \notin NonAscii

\* position of the first "=" of w, 0 if there is none
FindEq(w) ==
    IF \E i \in 1..Len(w) : w[i] = "="
    THEN CHOOSE i \in 1..Len(w) :
            w[i] = "=" /\ \A j \in 1..(i - 1) : w[j] # "="
    ELSE 0

AlgoName(w) ==
    IF w = <<"s", "h", "a", "1">> THEN "sha1"
    ELSE IF w = <<"s", "h", "a", "2", "5", "6">> THEN "sha256"
    ELSE IF w = <<"s", "h", "a", "5", "1", "2">> THEN "sha512"
    ELSE "other"

\* a digest that does not depend on the body
hexdigest_ignoresBody(algo, key, body) ==
    LET k == IF key = "s1" THEN "a" ELSE IF key = "s2" THEN "b" ELSE "c"
    IN  IF algo = "sha1" THEN <<k, "1", "d">>
        ELSE IF algo = "sha512" THEN <<k, "1", "e", "f", "0">>
        ELSE <<k, "1", "e", "f">>

\* hmac.new(key, body, hash_func).hexdigest(): a lower-case hex string that
\* differs whenever the algorithm, the key or the body differs
hexdigest(algo, key, body) ==
    LET k == IF key = "s1" THEN "a" ELSE IF key = "s2" THEN "b" ELSE "c"
        b == <<"1", "2", "3", "4", "5", "6", "7", "8", "9">>[body]
    IN  IF algo = "sha1" THEN <<k, b, "d">>
        ELSE IF algo = "sha512" THEN <<k, b, "e", "f", "0">>
        ELSE <<k, b, "e", "f">>

\* hmac.compare_digest on two str: TypeError unless both are ASCII
compare_digest(a, b) ==
    IF IsAscii(a) /\ IsAscii(b)
    THEN [raised |-> FALSE, ret |-> a = b]
    ELSE [raised |-> TRUE, ret |-> FALSE]

\* a verifier that compares the whole header unless it names an algorithm
verify_webhook_signature_wholeHeader(body, signature_header, key, algorithm) ==
    IF signature_header = None \/ signature_header = Some(<< >>)
    THEN [raised |-> FALSE, ret |-> FALSE]
    ELSE
      LET h == signature_header[1]
          eq == FindEq(h)
          algo == SubSeq(h, 1, eq - 1)
          named == eq > 0 /\ AlgoName(Lower(algo)) \in Algorithms
          provided_sig == IF named THEN SubSeq(h, eq + 1, Len(h)) ELSE h
          alg == IF named THEN AlgoName(Lower(algo)) ELSE algorithm
          expected_sig == hexdigest(alg, key, body)
      IN  compare_digest(Lower(expected_sig), Lower(provided_sig))

verify_webhook_signature(body, signature_header, key, algorithm) ==
    IF signature_header = None \/ signature_header = Some(<< >>)
    THEN [raised |-> FALSE, ret |-> FALSE]
    ELSE
      LET h == signature_header[1]
          eq == FindEq(h)
          algo == SubSeq(h, 1, eq - 1)
          provided_sig == IF eq > 0 THEN SubSeq(h, eq + 1, Len(h)) ELSE h
          alg == IF eq > 0 /\ AlgoName(Lower(algo)) \in Algorithms
                 THEN AlgoName(Lower(algo))
                 ELSE algorithm
          expected_sig == hexdigest(alg, key, body)
      IN  compare_digest(Lower(expected_sig), Lower(provided_sig))

----------------------------------------------------------------------------
(* the webhook router: GET verification and POST event delivery *)

\* GET {path}: websub_verification.  hasAttr: app.state has the attribute
\* websub_subscriber (both app factories set it)
websub_verification(v, c, hasAttr, mode, tpc, chal) ==
    LET keep == [verified |-> v, challenge |-> c, called |-> FALSE,
                 ret |-> None]
    IN  IF mode \in {"subscribe", "unsubscribe"}
        THEN IF hasSubscriber
             THEN LET r == verify_challenge(v, c, mode, tpc, chal)
                      st == [verified |-> r.verified,
                             challenge |-> r.challenge,
                             called |-> TRUE, ret |-> r.ret]
                  IN  IF r.ret # None /\ r.ret # Some("")
                      THEN st @@ [status |-> 200, body |-> r.ret[1]]
                      ELSE st @@ [status |-> 404,
                                  body |-> "Verification failed"]
             ELSE IF hasAttr
             THEN keep @@ [status |-> 404,
                           body |-> "No subscriber configured"]
             ELSE keep @@ [status |-> 200, body |-> chal]
        ELSE keep @@ [status |-> 404, body |-> "Invalid mode"]

\* what json.loads(body) does with each modelled body
BodyKind(body) ==
    CASE body = 1 -> "json_with_field"      \* e.g. {"event": "ping"}
      [] body = 2 -> "json_without_field"   \* e.g. {"other": 1}
      [] body = 3 -> "invalid_json"         \* JSONDecodeError
      [] OTHER -> "invalid_utf8"            \* UnicodeDecodeError

\* `a or b` of two optional header values
HeaderOr(a, b) == IF a # None /\ a # Some(<< >>) THEN a ELSE b

AgentOutcomes == {"str_json", "str_text", "dict", "list", "raise"}

\* what agent.arun raises when its outcome is "raise": any Exception subclass
\* with any message
AgentExceptions ==
    [type : {"ValueError", "RuntimeError"}, text : {"boom", "db password"}]

NoException == [type |-> "", text |-> ""]

\* the exceptions a request's agent run can end with
ExceptionsOf(agentOutcome) ==
    IF agentOutcome = "raise" THEN AgentExceptions ELSE {NoException}

\* except Exception as e: the detail that leaks str(e)
agent_failure_detail_leaky(exc) == exc.text

\* except Exception as e: the detail of the HTTPException raised instead
agent_failure_detail(exc) == "Internal server error"

\* the response body of a successful POST
shape_response(agentOutcome) ==
    IF outputIsString
    THEN IF agentOutcome \in {"str_json", "str_text"}
         THEN "wrapped"
         ELSE "wrapped_dumps"
    ELSE IF agentOutcome = "dict" THEN "passthrough"
    ELSE IF agentOutcome = "str_json" THEN "decoded"
    ELSE "wrapped"

\* the value agent.arun returns for each outcome: a Python value with its type
AgentResult(agentOutcome) ==
    CASE agentOutcome = "str_json" -> [type |-> "str", value |-> "{a: 1}"]
      [] agentOutcome = "str_text" -> [type |-> "str", value |-> "hello"]
      [] agentOutcome = "dict" -> [type |-> "dict", value |-> "a=1"]
      [] OTHER -> [type |-> "list", value |-> "1,2"]

\* json.loads(text) of a str: the decoded value, or JSONDecodeError
json_loads(text) ==
    IF text = "{a: 1}"
    THEN [raised |-> FALSE, value |-> [type |-> "dict", value |-> "a=1"]]
    ELSE IF text = "[1, 2]"
    THEN [raised |-> FALSE, value |-> [type |-> "list", value |-> "1,2"]]
    ELSE [raised |-> TRUE, value |-> [type |-> "none", value |-> ""]]

\* json.dumps(v) of a value that is not a str
json_dumps(v) ==
    [type |-> "str",
     value |-> IF v.type = "dict" THEN "{a: 1}" ELSE "[1, 2]"]

\* JSONResponse(content={"result": v}) and JSONResponse(content=v)
Wrapped(v) == [envelope |-> TRUE, value |-> v]

Bare(v) == [envelope |-> FALSE, value |-> v]

NoContent == Bare([type |-> "none", value |-> ""])

\* a handler that puts every result in the {"result": ...} envelope
response_content_alwaysWrapped(agentOutcome) ==
    Wrapped(AgentResult(agentOutcome))

\* the content of the JSONResponse of a successful POST
response_content(agentOutcome) ==
    LET response == AgentResult(agentOutcome)
    IN  IF outputIsString
        THEN IF response.type # "str"
             THEN Wrapped(json_dumps(response))
             ELSE Wrapped(response)
        ELSE IF response.type = "dict" THEN Bare(response)
        ELSE IF response.type = "str"
        THEN IF ~json_loads(response.value).raised
             THEN Bare(json_loads(response.value).value)
             ELSE Wrapped(response)
        ELSE Wrapped(response)

\* receive_webhook that parses the body before it verifies the signature
receive_webhook_parseFirst(r) ==
    LET mustVerify == verify_signatures /\ secret # None /\ secret # Some("")
        sig == verify_webhook_signature(r.body, HeaderOr(r.sig256, r.sig),
                                        secret[1], "sha256")
        s1 == <<"read_body", "parse_json">>
        s2 == IF mustVerify THEN Append(s1, "verify_signature") ELSE s1
        s3 == Append(s2, IF hasPrompt THEN "evaluate_template"
                                      ELSE "dumps_payload")
        s4 == Append(s3, "agent_arun")
    IN  IF BodyKind(r.body) = "invalid_utf8"
        THEN [status |-> 500, detail |-> "unhandled UnicodeDecodeError",
              steps |-> s1, shape |-> "error", content |-> NoContent]
        ELSE IF BodyKind(r.body) = "invalid_json"
        THEN [status |-> 400, detail |-> "Invalid JSON payload",
              steps |-> s1, shape |-> "error", content |-> NoContent]
        ELSE IF mustVerify /\ sig.raised
        THEN [status |-> 500, detail |-> "unhandled TypeError",
              steps |-> s2, shape |-> "error", content |-> NoContent]
        ELSE IF mustVerify /\ ~sig.ret
        THEN [status |-> 401, detail |-> "Invalid signature",
              steps |-> s2, shape |-> "error", content |-> NoContent]
        ELSE IF hasPrompt /\ BodyKind(r.body) = "json_without_field"
        THEN [status |-> 400, detail |-> "Failed to evaluate prompt template",
              steps |-> s3, shape |-> "error", content |-> NoContent]
        ELSE IF r.agent = "raise"
        THEN [status |-> 500, detail |-> agent_failure_detail(r.exc),
              steps |-> s4, shape |-> "error", content |-> NoContent]
        ELSE [status |-> 200, detail |-> "",
              steps |-> s4, shape |-> shape_response(r.agent),
              content |-> response_content(r.agent)]

\* POST {path}: receive_webhook.  steps lists what the handler did, in order
receive_webhook(r) ==
    LET mustVerify == verify_signatures /\ secret # None /\ secret # Some("")
        signature_header == HeaderOr(r.sig256, r.sig)
        sig == verify_webhook_signature(r.body, signature_header,
                                        secret[1], "sha256")
        s0 == <<"read_body">>
        s1 == IF mustVerify THEN Append(s0, "verify_signature") ELSE s0
        s2 == Append(s1, "parse_json")
        s3 == Append(s2, IF hasPrompt THEN "evaluate_template"
                                      ELSE "dumps_payload")
        s4 == Append(s3, "agent_arun")
    IN  IF mustVerify /\ sig.raised
        THEN [status |-> 500, detail |-> "unhandled TypeError",
              steps |-> s1, shape |-> "error", content |-> NoContent]
        ELSE IF mustVerify /\ ~sig.ret
        THEN [status |-> 401, detail |-> "Invalid signature",
              steps |-> s1, shape |-> "error", content |-> NoContent]
        ELSE IF BodyKind(r.body) = "invalid_utf8"
        THEN [status |-> 500, detail |-> "unhandled UnicodeDecodeError",
              steps |-> s2, shape |-> "error", content |-> NoContent]
        ELSE IF BodyKind(r.body) = "invalid_json"
        THEN [status |-> 400, detail |-> "Invalid JSON payload",
              steps |-> s2, shape |-> "error", content |-> NoContent]
        ELSE IF hasPrompt /\ BodyKind(r.body) = "json_without_field"
        THEN [status |-> 400, detail |-> "Failed to evaluate prompt template",
              steps |-> s3, shape |-> "error", content |-> NoContent]
        ELSE IF r.agent = "raise"
        THEN [status |-> 500, detail |-> agent_failure_detail(r.exc),
              steps |-> s4, shape |-> "error", content |-> NoContent]
        ELSE [status |-> 200, detail |-> "",
              steps |-> s4, shape |-> shape_response(r.agent),
              content |-> response_content(r.agent)]


----------------------------------------------------------------------------
(* requests *)

Prefix256 == <<"s", "h", "a", "2", "5", "6", "=">>

Prefix1 == <<"s", "h", "a", "1", "=">>

PrefixMd5 == <<"m", "d", "5", "=">>

UpperChar(c) ==
    CASE c = "s" -> "S" [] c = "h" -> "H" [] c = "a" -> "A"
      [] c = "b" -> "B" [] OTHER -> c

Upper(w) == [i \in 1..Len(w) |-> UpperChar(w[i])]

OtherBody(body) == (body % NumBodies) + 1

\* the values a signature header of a request with this body can carry
SignatureValues(body) ==
    { None,
      Some(<< >>),
      Some(Prefix256 \o hexdigest("sha256", "s1", body)),
      Some(Upper(Prefix256 \o hexdigest("sha256", "s1", body))),
      Some(hexdigest("sha256", "s1", body)),
      Some(Prefix1 \o hexdigest("sha1", "s1", body)),
      Some(hexdigest("sha1", "s1", body)),
      Some(PrefixMd5 \o hexdigest("sha256", "s1", body)),
      Some(Prefix256 \o hexdigest("sha256", "s2", body)),
      Some(Prefix256 \o hexdigest("sha256", "s1", OtherBody(body))),
      Some(<<"e_acute">>) }

Prefix512 == <<"s", "h", "a", "5", "1", "2", "=">>

\* the secrets and default algorithms a direct caller of the verifier passes
VerifyKeys == Secrets \cup {""}

DefaultAlgorithms == Algorithms \cup {"md5"}

HeaderPrefixes ==
    {<< >>, Prefix256, Prefix1, Prefix512, PrefixMd5, Upper(Prefix1), <<"=">>}

\* digests a header can carry for a call on this body
HeaderDigests(body) ==
    { hexdigest(a, k, b) :
        <<a, k, b>> \in Algorithms \X VerifyKeys \X (1..NumBodies) }
      \cup { Upper(hexdigest("sha256", "s1", body)), <<"e_acute">> }

\* the calls verify_webhook_signature(body, signature_header, secret,
\* algorithm=...) explored
VerifyCalls ==
    UNION { [op : {"verify_webhook_signature"}, body : {b},
             header : {None, Some(<< >>)}
                        \cup { Some(p \o d) :
                                 <<p, d>> \in HeaderPrefixes
                                                \X HeaderDigests(b) },
             key : VerifyKeys, algorithm : DefaultAlgorithms]
            : b \in 1..NumBodies }

PostRequests ==
    UNION { [op : {"POST"}, body : {b}, sig256 : SignatureValues(b),
             sig : SignatureValues(b), agent : {a}, exc : ExceptionsOf(a)]
            : <<b, a>> \in (1..NumBodies) \X AgentOutcomes }

\* the few POST requests sent while the subscription lifecycle is explored
LifecyclePostRequests ==
    UNION { [op : {"POST"}, body : {b},
             sig256 : {None,
                       Some(Prefix256 \o hexdigest("sha256", "s1", b))},
             sig : {None}, agent : {"str_text"}, exc : {NoException}]
            : b \in {1, 3} }

GetRequests ==
    [op : {"GET"}, mode : Modes, topic : Topics, challenge : Challenges]

----------------------------------------------------------------------------
(* prompt templates: compile_template (afm-core of the langchain interpreter) *)

MaxPieces == 3              \* a template is at most MaxPieces pieces long

HttpPrefix == <<"h", "t", "t", "p", ":">>

PayloadWord == <<"p", "a", "y", "l", "o", "a", "d">>

HeaderWord == <<"h", "e", "a", "d", "e", "r">>

DollarBrace == <<"$", "{">>

\* w.startswith(p)
StartsWith(w, p) == Len(w) >= Len(p) /\ SubSeq(w, 1, Len(p)) = p

\* w.find(p, start): the first position from start on where p occurs in w,
\* 0 for Python's -1 (positions count from 1)
Find(w, p, start) ==
    LET hits == { i \in start..(Len(w) - Len(p) + 1) :
                    SubSeq(w, i, i + Len(p) - 1) = p }
    IN  IF hits = {} THEN 0
        ELSE CHOOSE i \in hits : \A j \in hits : i <= j

\* w[start:] with start counted from 1
From(w, start) == SubSeq(w, start, Len(w))

LiteralSegment(text) == [kind |-> "literal", text |-> text]

PayloadVariable(path) == [kind |-> "payload", path |-> path]

HeaderVariable(name) == [kind |-> "header", name |-> name]

NoError == [message |-> "", arg |-> << >>]

\* raise TemplateCompilationError(f"{message}: {arg}")
TemplateCompilationError(message, arg) ==
    [raised |-> TRUE, error |-> [message |-> message, arg |-> arg],
     segment |-> LiteralSegment(<< >>)]

Parsed(segment) == [raised |-> FALSE, error |-> NoError, segment |-> segment]

\* a parser that lets the empty path and the empty header name through
parse_http_variable_allowsEmpty(http_part, full_expr) ==
    IF http_part = PayloadWord
    THEN Parsed(PayloadVariable(<< >>))
    ELSE IF StartsWith(http_part, PayloadWord \o <<".">>)
    THEN Parsed(PayloadVariable(From(http_part, 9)))
    ELSE IF StartsWith(http_part, HeaderWord \o <<".">>)
    THEN Parsed(HeaderVariable(From(http_part, 8)))
    ELSE TemplateCompilationError("Unknown http variable prefix", http_part)

\* _parse_http_variable
parse_http_variable(http_part, full_expr) ==
    IF http_part = PayloadWord
    THEN Parsed(PayloadVariable(<< >>))
    ELSE IF StartsWith(http_part, PayloadWord \o <<".">>)
    THEN LET path == From(http_part, 9)
         IN  IF path = << >>
             THEN TemplateCompilationError("Invalid http variable format",
                                           full_expr)
             ELSE Parsed(PayloadVariable(path))
    ELSE IF StartsWith(http_part, HeaderWord \o <<".">>)
    THEN LET header_name == From(http_part, 8)
         IN  IF header_name = << >>
             THEN TemplateCompilationError("Invalid http variable format",
                                           full_expr)
             ELSE Parsed(HeaderVariable(header_name))
    ELSE LET dot == Find(http_part, <<".">>, 1)
             prefix == IF dot > 0 THEN SubSeq(http_part, 1, dot - 1)
                       ELSE http_part
         IN  TemplateCompilationError("Unknown http variable prefix", prefix)

\* a search that stops at any "$"
find_dollar_brace_dollarOnly(template, pos) == Find(template, <<"$">>, pos)

\* template.find("${", pos)
find_dollar_brace(template, pos) == Find(template, DollarBrace, pos)

\* a tail that starts at the unterminated "${" instead of the cursor
unterminated_tail_fromDollar(template, pos, dollar_pos) ==
    LiteralSegment(From(template, dollar_pos))

\* the segment emitted when the "${" at dollar_pos has no "}" after it
unterminated_tail(template, pos, dollar_pos) ==
    LiteralSegment(From(template, pos))

\* a literal that keeps the expression and drops the "${" and "}" around it
preserved_literal_bare(var_expr) == LiteralSegment(var_expr)

\* LiteralSegment(text=f"${{{var_expr}}}") for a variable that is not http:
preserved_literal(var_expr) ==
    LiteralSegment(DollarBrace \o var_expr \o <<"}">>)

Compiled(segments) ==
    [raised |-> FALSE, error |-> NoError, segments |-> segments]

\* the while loop of compile_template, from cursor pos with the segments
\* emitted so far
RECURSIVE compile_loop(_, _, _)
compile_loop(template, pos, segments) ==
    IF ~(pos <= Len(template))
    THEN Compiled(segments)
    ELSE
      LET dollar_pos == find_dollar_brace(template, pos)
          close_pos == Find(template, <<"}">>, dollar_pos)
          before == IF dollar_pos > pos
                    THEN Append(segments,
                                LiteralSegment(SubSeq(template, pos,
                                                      dollar_pos - 1)))
                    ELSE segments
          var_expr == SubSeq(template, dollar_pos + 2, close_pos - 1)
          parsed == parse_http_variable(From(var_expr, 6), var_expr)
      IN  IF dollar_pos = 0
          THEN Compiled(Append(segments,
                               LiteralSegment(From(template, pos))))
          ELSE IF close_pos = 0
          THEN Compiled(Append(segments,
                               unterminated_tail(template, pos, dollar_pos)))
          ELSE IF StartsWith(var_expr, HttpPrefix)
          THEN IF parsed.raised
               THEN [raised |-> TRUE, error |-> parsed.error,
                     segments |-> << >>]
               ELSE compile_loop(template, close_pos + 1,
                                 Append(before, parsed.segment))
          ELSE compile_loop(template, close_pos + 1,
                            Append(before,
                                   preserved_literal(var_expr)))

compile_template(template) == compile_loop(template, 1, << >>)

\* a cursor that goes back to the "${" just consumed
next_pos_atDollar(dollar_pos, close_pos) == dollar_pos

\* pos = close_pos + 1
next_pos(dollar_pos, close_pos) == close_pos + 1

Looping(pos, segments) ==
    [pc |-> "loop", pos |-> pos, segments |-> segments, error |-> NoError]

Returned(pos, segments) ==
    [pc |-> "returned", pos |-> pos, segments |-> segments,
     error |-> NoError]

\* one test of the while condition of compile_template and, when it holds,
\* one run of the loop body, from cursor pos with the segments emitted so far
compile_step(template, pos, segments) ==
    IF ~(pos <= Len(template))
    THEN Returned(pos, segments)
    ELSE
      LET dollar_pos == find_dollar_brace(template, pos)
          close_pos == Find(template, <<"}">>, dollar_pos)
          before == IF dollar_pos > pos
                    THEN Append(segments,
                                LiteralSegment(SubSeq(template, pos,
                                                      dollar_pos - 1)))
                    ELSE segments
          var_expr == SubSeq(template, dollar_pos + 2, close_pos - 1)
          parsed == parse_http_variable(From(var_expr, 6), var_expr)
      IN  IF dollar_pos = 0
          THEN Returned(pos, Append(segments,
                                    LiteralSegment(From(template, pos))))
          ELSE IF close_pos = 0
          THEN Returned(pos,
                        Append(segments,
                               unterminated_tail(template, pos, dollar_pos)))
          ELSE IF StartsWith(var_expr, HttpPrefix)
          THEN IF parsed.raised
               THEN [pc |-> "raised", pos |-> pos, segments |-> << >>,
                     error |-> parsed.error]
               ELSE Looping(next_pos(dollar_pos, close_pos),
                            Append(before, parsed.segment))
          ELSE Looping(next_pos(dollar_pos, close_pos),
                       Append(before,
                              preserved_literal(var_expr)))

----------------------------------------------------------------------------
(* prompt templates: evaluate_template and access_json_field *)

\* JSON values: every value carries its type, its characters (str, number)
\* and its items (dict: key/value pairs in insertion order; list: values)
JStr(text) == [type |-> "str", text |-> text, items |-> << >>]

JNum(text) == [type |-> "num", text |-> text, items |-> << >>]

JDict(items) == [type |-> "dict", text |-> << >>, items |-> items]

JList(items) == [type |-> "list", text |-> << >>, items |-> items]

JNull == [type |-> "null", text |-> << >>, items |-> << >>]

Entry(key, val) == [key |-> key, val |-> val]

\* key in d, and d[key], for a dict d
HasKey(d, key) == \E i \in 1..Len(d.items) : d.items[i].key = key

GetKey(d, key) ==
    d.items[CHOOSE i \in 1..Len(d.items) : d.items[i].key = key].val

\* sep.join(texts)
RECURSIVE Join(_, _)
Join(sep, texts) ==
    IF texts = << >> THEN << >>
    ELSE IF Len(texts) = 1 THEN texts[1]
    ELSE texts[1] \o sep \o Join(sep, Tail(texts))

\* json.dumps(v) with the default separators
RECURSIVE json_dumps_value(_)
json_dumps_value(v) ==
    CASE v.type = "str" -> <<"\"">> \o v.text \o <<"\"">>
      [] v.type = "num" -> v.text
      [] v.type = "null" -> <<"n", "u", "l", "l">>
      [] v.type = "dict" ->
           <<"{">>
             \o Join(<<",", " ">>,
                     [i \in 1..Len(v.items) |->
                        <<"\"">> \o v.items[i].key \o <<"\"", ":", " ">>
                          \o json_dumps_value(v.items[i].val)])
             \o <<"}">>
      [] OTHER ->
           <<"[">>
             \o Join(<<",", " ">>,
                     [i \in 1..Len(v.items) |->
                        json_dumps_value(v.items[i])])
             \o <<"]">>

Digits == {"0", "1", "2", "3", "4", "5", "6", "7", "8", "9"}

DigitValue(c) ==
    CASE c = "0" -> 0 [] c = "1" -> 1 [] c = "2" -> 2 [] c = "3" -> 3
      [] c = "4" -> 4 [] c = "5" -> 5 [] c = "6" -> 6 [] c = "7" -> 7
      [] c = "8" -> 8 [] OTHER -> 9

RECURSIVE DigitsValue(_)
DigitsValue(w) ==
    IF w = << >> THEN 0
    ELSE 10 * DigitsValue(SubSeq(w, 1, Len(w) - 1)) + DigitValue(w[Len(w)])

\* int(w): an optional sign and decimal digits; ValueError otherwise
ParseInt(w) ==
    LET signed == Len(w) >= 1 /\ w[1] \in {"-", "+"}
        digits == IF signed THEN Tail(w) ELSE w
    IN  IF digits # << >> /\ \A i \in 1..Len(digits) : digits[i] \in Digits
        THEN [raised |-> FALSE,
              value |-> IF signed /\ w[1] = "-" THEN 0 - DigitsValue(digits)
                        ELSE DigitsValue(digits)]
        ELSE [raised |-> TRUE, value |-> 0]

\* raise JSONAccessError(message)
JSONAccessError(message) ==
    [raised |-> TRUE, error |-> message, current |-> JNull,
     remaining |-> << >>]

Accessed(current, remaining) ==
    [raised |-> FALSE, error |-> "", current |-> current,
     remaining |-> remaining]

\* current[field_name] of the quoted-bracket and dot notations
field_access(current, field_name, new_remaining) ==
    IF current.type # "dict"
    THEN JSONAccessError("Cannot access field on non-object")
    ELSE IF ~HasKey(current, field_name)
    THEN JSONAccessError("Field not found")
    ELSE Accessed(GetKey(current, field_name), new_remaining)

IsQuoted(w, q) == Len(w) >= 1 /\ w[1] = q /\ w[Len(w)] = q

\* a bounds test that only looks at the upper end
index_in_bounds_noLower(index, length) == ~(index >= length)

\* not (index < 0 or index >= len(current))
index_in_bounds(index, length) == ~(index < 0 \/ index >= length)

\* current[index] of a Python list: a negative index counts from the end,
\* an index outside -len..len-1 raises IndexError
list_item(items, index) ==
    IF 0 <= index /\ index < Len(items)
    THEN [raised |-> FALSE, value |-> items[index + 1]]
    ELSE IF index < 0 /\ 0 - index <= Len(items)
    THEN [raised |-> FALSE, value |-> items[Len(items) + index + 1]]
    ELSE [raised |-> TRUE, value |-> JNull]

\* _handle_bracket_access
handle_bracket_access(current, remaining) ==
    LET close_bracket == Find(remaining, <<"]">>, 1)
        bracket_content == SubSeq(remaining, 2, close_bracket - 1)
        new_remaining == From(remaining, close_bracket + 1)
        index == ParseInt(bracket_content)
    IN  IF close_bracket = 0
        THEN JSONAccessError("Invalid bracket notation in path")
        ELSE IF IsQuoted(bracket_content, "'")
                  \/ IsQuoted(bracket_content, "\"")
        THEN field_access(current,
                          SubSeq(bracket_content, 2,
                                 Len(bracket_content) - 1),
                          new_remaining)
        ELSE IF index.raised
        THEN JSONAccessError("Invalid array index")
        ELSE IF current.type # "list"
        THEN JSONAccessError("Cannot access index on non-array")
        ELSE IF ~index_in_bounds(index.value, Len(current.items))
        THEN JSONAccessError("Array index out of bounds")
        ELSE IF list_item(current.items, index.value).raised
        THEN [raised |-> TRUE, error |-> "IndexError", current |-> JNull,
              remaining |-> << >>]
        ELSE Accessed(list_item(current.items, index.value).value,
                      new_remaining)

\* a remainder that starts behind the delimiter
rest_from_delimiter_behind(remaining, delimiter_pos) ==
    From(remaining, delimiter_pos + 1)

\* new_remaining = remaining[delimiter_pos:], the delimiter included
rest_from_delimiter(remaining, delimiter_pos) ==
    From(remaining, delimiter_pos)

\* _handle_dot_notation
handle_dot_notation(current, remaining) ==
    LET dot_pos == Find(remaining, <<".">>, 1)
        bracket_pos == Find(remaining, <<"[">>, 1)
        delimiter_pos ==
            IF dot_pos = 0 /\ bracket_pos = 0 THEN Len(remaining) + 1
            ELSE IF dot_pos = 0 THEN bracket_pos
            ELSE IF bracket_pos = 0 THEN dot_pos
            ELSE IF dot_pos < bracket_pos THEN dot_pos ELSE bracket_pos
        field_name == SubSeq(remaining, 1, delimiter_pos - 1)
        new_remaining == rest_from_delimiter(remaining, delimiter_pos)
    IN  IF field_name = << >>
        THEN JSONAccessError("Empty field name in path")
        ELSE field_access(current, field_name, new_remaining)

\* the while loop of access_json_field
RECURSIVE access_loop(_, _)
access_loop(current, remaining) ==
    IF remaining = << >>
    THEN Accessed(current, remaining)
    ELSE IF remaining[1] = "["
    THEN LET r == handle_bracket_access(current, remaining)
         IN  IF r.raised THEN r ELSE access_loop(r.current, r.remaining)
    ELSE IF remaining[1] = "."
    THEN IF StartsWith(remaining, <<".", ".">>)
         THEN JSONAccessError("Empty field name in path")
         ELSE access_loop(current, Tail(remaining))
    ELSE LET r == handle_dot_notation(current, remaining)
         IN  IF r.raised THEN r ELSE access_loop(r.current, r.remaining)

access_json_field(payload, path) == access_loop(payload, path)

\* a skip that leaves the dot where it is
skip_dot_stuck(remaining) == remaining

\* remaining = remaining[1:]
skip_dot(remaining) == Tail(remaining)

AccessLooping(current, remaining) ==
    [pc |-> "loop", error |-> "", current |-> current,
     remaining |-> remaining]

\* the outcome of a handler, as the state of the loop that called it
AfterHandler(r) ==
    [pc |-> IF r.raised THEN "raised" ELSE "loop", error |-> r.error,
     current |-> r.current, remaining |-> r.remaining]

\* one test of the while condition of access_json_field and, when it holds,
\* one run of the loop body
access_step(current, remaining) ==
    IF remaining = << >>
    THEN [pc |-> "returned", error |-> "", current |-> current,
          remaining |-> remaining]
    ELSE IF remaining[1] = "["
    THEN AfterHandler(handle_bracket_access(current, remaining))
    ELSE IF remaining[1] = "."
    THEN IF StartsWith(remaining, <<".", ".">>)
         THEN AfterHandler(JSONAccessError("Empty field name in path"))
         ELSE AccessLooping(current, skip_dot(remaining))
    ELSE AfterHandler(handle_dot_notation(current, remaining))

\* raise TemplateEvaluationError(message), or the text a segment contributes
TemplateEvaluationError(message, arg) ==
    [raised |-> TRUE, error |-> [message |-> message, arg |-> arg],
     text |-> << >>]

Part(text) == [raised |-> FALSE, error |-> NoError, text |-> text]

\* _handle_payload_variable
handle_payload_variable(payload, segment) ==
    LET r == access_json_field(payload, segment.path)
    IN  IF segment.path = << >>
        THEN Part(json_dumps_value(payload))
        ELSE IF r.raised
        THEN TemplateEvaluationError("Cannot resolve payload variable",
                                     segment.path)
        ELSE IF r.current.type = "str"
        THEN Part(r.current.text)
        ELSE Part(json_dumps_value(r.current))

\* a comparison of the header key with the name as they are written
header_matches_exact(key, name) == key = name

\* key.lower() == header_name_lower
header_matches(key, name) == Lower(key) = Lower(name)

\* a missing header that contributes the empty string
header_not_found_empty(segment) == Part(<< >>)

\* the raise that follows the for loop over headers.items()
header_not_found(segment) ==
    TemplateEvaluationError("header not found", segment.name)

\* ", ".join(value)
join_values(value) ==
    Join(<<",", " ">>, [i \in 1..Len(value.items) |-> value.items[i].text])

\* _handle_header_variable; headers is None or Some(key/value pairs)
handle_header_variable(headers, segment) ==
    IF headers = None
    THEN TemplateEvaluationError("no headers provided", segment.name)
    ELSE
      LET items == headers[1]
          hits == { i \in 1..Len(items) :
                      header_matches(items[i].key, segment.name) }
          first == CHOOSE i \in hits : \A j \in hits : i <= j
          value == items[first].val
      IN  IF hits = {}
          THEN header_not_found(segment)
          ELSE IF value.type = "list"
          THEN Part(join_values(value))
          ELSE Part(value.text)

\* case LiteralSegment(text=text): parts.append(text)
literal_part(segment) == Part(segment.text)

\* the for loop of evaluate_template over segments i.. with the parts so far
RECURSIVE evaluate_loop(_, _, _, _, _)
evaluate_loop(segments, i, parts, payload, headers) ==
    IF i > Len(segments)
    THEN Part(Join(<< >>, parts))
    ELSE
      LET segment == segments[i]
          part == CASE segment.kind = "literal" -> literal_part(segment)
                    [] segment.kind = "payload" ->
                         handle_payload_variable(payload, segment)
                    [] OTHER -> handle_header_variable(headers, segment)
      IN  IF part.raised THEN part
          ELSE evaluate_loop(segments, i + 1, Append(parts, part.text),
                             payload, headers)

evaluate_template(compiled, payload, headers) ==
    evaluate_loop(compiled, 1, << >>, payload, headers)

----------------------------------------------------------------------------
(* templates, payloads and headers explored *)

\* the pieces templates are put together from
Pieces ==
    { <<"x">>, <<"$">>, DollarBrace, <<"}">>,
      DollarBrace \o <<"x", "}">>,
      HttpPrefix,
      HttpPrefix \o <<"x", ".", "f">>,
      HttpPrefix \o PayloadWord,
      HttpPrefix \o PayloadWord \o <<".">>,
      HttpPrefix \o PayloadWord \o <<".", "f">>,
      HttpPrefix \o HeaderWord \o <<".">>,
      HttpPrefix \o HeaderWord \o <<".", "F">> }

RECURSIVE Concat(_)
Concat(ws) == IF ws = << >> THEN << >> ELSE ws[1] \o Concat(Tail(ws))

\* the templates of at most n pieces
TemplatesUpTo(n) ==
    UNION { { Concat(ps) : ps \in [1..m -> Pieces] } : m \in 0..n }

Payloads ==
    { JDict(<<Entry(<<"f">>, JStr(<<"v">>))>>),
      JDict(<<Entry(<<"x">>, JNum(<<"1">>)),
              Entry(<<"f">>, JList(<<JStr(<<"a">>), JNull>>))>>),
      JList(<<JStr(<<"v">>)>>) }

\* no headers; {"x": "1", "f": ["a", "b"]}; {"x": "1"}; {"f": "v", "F": "w"}
HeaderSets ==
    { None,
      Some(<<Entry(<<"x">>, JStr(<<"1">>)),
             Entry(<<"f">>, JList(<<JStr(<<"a">>), JStr(<<"b">>)>>))>>),
      Some(<<Entry(<<"x">>, JStr(<<"1">>))>>),
      Some(<<Entry(<<"f">>, JStr(<<"v">>)), Entry(<<"F">>, JStr(<<"w">>))>>) }

\* compile_template(template) called on the template at hand
CompileTemplate ==
    /\ lastOp = "init"
    /\ req.op = "template"
    /\ req' = [req EXCEPT !.op = "compile_template"]
    /\ resp' = compile_template(req.template)
    /\ lastOp' = "compile_template"
    /\ UNCHANGED << cfgVars, subscriberVars, phase, taskVars, unsubRequests,
                    raisedFrom, failure, log >>

\* evaluate_template(compiled, payload, headers) called on its result
EvaluateTemplate ==
    /\ lastOp = "compile_template"
    /\ ~resp.raised
    /\ \E payload \in Payloads, headers \in HeaderSets :
          /\ req' = [op |-> "evaluate_template", template |-> req.template,
                     compiled |-> resp.segments, payload |-> payload,
                     headers |-> headers]
          /\ resp' = evaluate_template(resp.segments, payload, headers)
    /\ lastOp' = "evaluate_template"
    /\ UNCHANGED << cfgVars, subscriberVars, phase, taskVars, unsubRequests,
                    raisedFrom, failure, log >>

----------------------------------------------------------------------------
(* langchain_interpreter.templates: the same compiler, an evaluator that
   substitutes the empty string for what it cannot resolve *)

\* compile_template of langchain_interpreter.templates: the code of afm-core's
li_compile_template(template) == compile_template(template)

\* _handle_bracket_access of langchain_interpreter.templates: the code of
\* afm-core's
li_handle_bracket_access(current, remaining) ==
    handle_bracket_access(current, remaining)

\* _handle_dot_notation of langchain_interpreter.templates: an empty field
\* name leaves the current value as it is
li_handle_dot_notation(current, remaining) ==
    LET dot_pos == Find(remaining, <<".">>, 1)
        bracket_pos == Find(remaining, <<"[">>, 1)
        delimiter_pos ==
            IF dot_pos = 0 /\ bracket_pos = 0 THEN Len(remaining) + 1
            ELSE IF dot_pos = 0 THEN bracket_pos
            ELSE IF bracket_pos = 0 THEN dot_pos
            ELSE IF dot_pos < bracket_pos THEN dot_pos ELSE bracket_pos
        field_name == SubSeq(remaining, 1, delimiter_pos - 1)
        new_remaining == From(remaining, delimiter_pos)
    IN  IF field_name = << >>
        THEN Accessed(current, new_remaining)
        ELSE field_access(current, field_name, new_remaining)

\* the while loop of its access_json_field: a leading dot is skipped, two
\* dots in a row included
RECURSIVE li_access_loop(_, _)
li_access_loop(current, remaining) ==
    IF remaining = << >> THEN Accessed(current, remaining)
    ELSE IF remaining[1] = "["
    THEN LET r == li_handle_bracket_access(current, remaining)
         IN  IF r.raised THEN r ELSE li_access_loop(r.current, r.remaining)
    ELSE IF remaining[1] = "."
    THEN li_access_loop(current, Tail(remaining))
    ELSE LET r == li_handle_dot_notation(current, remaining)
         IN  IF r.raised THEN r ELSE li_access_loop(r.current, r.remaining)

li_access_json_field(payload, path) == li_access_loop(payload, path)

\* an unresolved reference that raises
li_unresolved_raises(segment) ==
    TemplateEvaluationError("unresolved", << >>)

\* parts.append("") for a reference that cannot be resolved
li_unresolved(segment) == Part(<< >>)

\* its _handle_payload_variable
li_handle_payload_variable(payload, segment) ==
    LET r == li_access_json_field(payload, segment.path)
    IN  IF segment.path = << >>
        THEN Part(json_dumps_value(payload))
        ELSE IF r.raised
        THEN li_unresolved(segment)
        ELSE IF r.current.type = "str"
        THEN Part(r.current.text)
        ELSE Part(json_dumps_value(r.current))

\* its _handle_header_variable
li_handle_header_variable(headers, segment) ==
    IF headers = None
    THEN li_unresolved(segment)
    ELSE
      LET items == headers[1]
          hits == { i \in 1..Len(items) :
                      Lower(items[i].key) = Lower(segment.name) }
          first == CHOOSE i \in hits : \A j \in hits : i <= j
          value == items[first].val
      IN  IF hits = {}
          THEN li_unresolved(segment)
          ELSE IF value.type = "list"
          THEN Part(Join(<<",", " ">>,
                         [i \in 1..Len(value.items) |->
                            value.items[i].text]))
          ELSE Part(value.text)

\* the for loop of its evaluate_template
RECURSIVE li_evaluate_loop(_, _, _, _, _)
li_evaluate_loop(segments, i, parts, payload, headers) ==
    IF i > Len(segments)
    THEN Part(Join(<< >>, parts))
    ELSE
      LET segment == segments[i]
          part == CASE segment.kind = "literal" -> Part(segment.text)
                    [] segment.kind = "payload" ->
                         li_handle_payload_variable(payload, segment)
                    [] OTHER -> li_handle_header_variable(headers, segment)
      IN  IF part.raised THEN part
          ELSE li_evaluate_loop(segments, i + 1, Append(parts, part.text),
                                payload, headers)

li_evaluate_template(compiled, payload, headers) ==
    li_evaluate_loop(compiled, 1, << >>, payload, headers)

\* the pieces its templates are put together from: text and whole variables
LiPieces ==
    { <<"x">>,
      DollarBrace \o HttpPrefix \o HeaderWord \o <<".", "F", "}">>,
      DollarBrace \o HttpPrefix \o HeaderWord \o <<".", "y", "}">>,
      DollarBrace \o HttpPrefix \o PayloadWord \o <<"}">>,
      DollarBrace \o HttpPrefix \o PayloadWord \o <<".", "f", "}">>,
      DollarBrace \o HttpPrefix \o PayloadWord
         \o <<".", "f", "[", "1", "]", "}">>,
      DollarBrace \o HttpPrefix \o PayloadWord
         \o <<".", "f", ".", ".", "f", "}">> }

LiTemplatesUpTo(n) ==
    UNION { { Concat(ps) : ps \in [1..m -> LiPieces] } : m \in 0..n }

\* its compile_template(template) called on the template at hand
LiCompileTemplate ==
    /\ lastOp = "init"
    /\ req.op = "li_template"
    /\ req' = [req EXCEPT !.op = "li_compile_template"]
    /\ resp' = li_compile_template(req.template)
    /\ lastOp' = "li_compile_template"
    /\ UNCHANGED << cfgVars, subscriberVars, phase, taskVars, unsubRequests,
                    raisedFrom, failure, log >>

\* its evaluate_template(compiled, payload, headers) called on the result
LiEvaluateTemplate ==
    /\ lastOp = "li_compile_template"
    /\ ~resp.raised
    /\ \E payload \in Payloads, headers \in HeaderSets :
          /\ req' = [op |-> "li_evaluate_template", template |-> req.template,
                     compiled |-> resp.segments, payload |-> payload,
                     headers |-> headers]
          /\ resp' = li_evaluate_template(resp.segments, payload, headers)
    /\ lastOp' = "li_evaluate_template"
    /\ UNCHANGED << cfgVars, subscriberVars, phase, taskVars, unsubRequests,
                    raisedFrom, failure, log >>

MaxPathPieces == 4          \* a path is at most MaxPathPieces pieces long
MaxFairPathPieces == 3      \* the same where termination is checked

\* the pieces paths are put together from
PathPieces ==
    { <<"f">>, <<".">>, <<"[">>, <<"[", "0", "]">>, <<"[", "1", "]">>,
      <<"[", "-", "1", "]">>, <<"[", "x", "]">>, <<"[", "'", "f", "'", "]">> }

\* the paths of at most n pieces
PathsUpTo(n) ==
    UNION { { Concat(ps) : ps \in [1..m -> PathPieces] } : m \in 0..n }

\* {"f": ["a", {"f": "b"}]}, {"f": {"f": ["v"]}}, ["v"] and "s"
Roots ==
    { JDict(<<Entry(<<"f">>,
                    JList(<<JStr(<<"a">>),
                            JDict(<<Entry(<<"f">>, JStr(<<"b">>))>>)>>))>>),
      JDict(<<Entry(<<"f">>,
                    JDict(<<Entry(<<"f">>, JList(<<JStr(<<"v">>)>>))>>))>>),
      JList(<<JStr(<<"v">>)>>),
      JStr(<<"s">>) }

\* access_json_field running: one iteration of its while loop
AccessStep ==
    /\ req.op = "access_json_field_running"
    /\ resp.pc = "loop"
    /\ resp' = access_step(resp.current, resp.remaining)
    /\ lastOp' = "access_step"
    /\ UNCHANGED << cfgVars, subscriberVars, phase, taskVars, unsubRequests,
                    raisedFrom, failure, log, req >>

\* compile_template running: one iteration of its while loop
CompileStep ==
    /\ req.op = "compile_template_running"
    /\ resp.pc = "loop"
    /\ resp' = compile_step(req.template, resp.pos, resp.segments)
    /\ lastOp' = "compile_step"
    /\ UNCHANGED << cfgVars, subscriberVars, phase, taskVars, unsubRequests,
                    raisedFrom, failure, log, req >>

----------------------------------------------------------------------------
(* request handlers and direct calls *)

WebsubVerification ==
    /\ phase = "serving"
    /\ \E r \in GetRequests :
          LET out == websub_verification(verified, challenge, TRUE,
                                         r.mode, r.topic, r.challenge)
          IN  /\ verified' = out.verified
              /\ challenge' = out.challenge
              /\ req' = r
              /\ resp' = [status |-> out.status, body |-> out.body,
                          called |-> out.called, ret |-> out.ret]
    /\ lastOp' = "websub_verification"
    /\ UNCHANGED << cfgVars, phase, taskVars, unsubRequests, raisedFrom,
                    failure, log >>

ReceiveWebhook(requests) ==
    /\ phase = "serving"
    /\ \E r \in requests :
          /\ req' = r
          /\ resp' = receive_webhook(r)
    /\ lastOp' = "receive_webhook"
    /\ UNCHANGED << cfgVars, subscriberVars, phase, taskVars, unsubRequests,
                    raisedFrom, failure, log >>

HealthCheck ==
    /\ phase = "serving"
    /\ req' = [op |-> "GET /health"]
    /\ resp' = [status |-> 200, body |-> "ok"]
    /\ lastOp' = "health_check"
    /\ UNCHANGED << cfgVars, subscriberVars, phase, taskVars, unsubRequests,
                    raisedFrom, failure, log >>

\* subscriber.verify_challenge(mode, topic, challenge) called directly
VerifyChallengeCall ==
    /\ variant = "direct"
    /\ \E r \in GetRequests :
          LET out == verify_challenge(verified, challenge,
                                      r.mode, r.topic, r.challenge)
          IN  /\ verified' = out.verified
              /\ challenge' = out.challenge
              /\ req' = [r EXCEPT !.op = "verify_challenge"]
              /\ resp' = [status |-> 0, body |-> "",
                          called |-> TRUE, ret |-> out.ret]
    /\ lastOp' = "verify_challenge"
    /\ UNCHANGED << cfgVars, phase, taskVars, unsubRequests, raisedFrom,
                    failure, log >>

\* verify_webhook_signature called directly
VerifySignatureCall(calls) ==
    /\ variant = "direct"
    /\ \E r \in calls :
          /\ req' = r
          /\ resp' = verify_webhook_signature(r.body, r.header, r.key,
                                              r.algorithm)
    /\ lastOp' = "verify_webhook_signature"
    /\ UNCHANGED << cfgVars, subscriberVars, phase, taskVars, unsubRequests,
                    raisedFrom, failure, log >>

----------------------------------------------------------------------------
(* specifications *)

InitState ==
    /\ verified = FALSE
    /\ challenge = None
    /\ taskPc = "none"
    /\ attempt = 0
    /\ max_retries = DefaultMaxRetries
    /\ retry_delay = DefaultRetryDelay
    /\ subRequests = 0
    /\ accepted = FALSE
    /\ sleeps = << >>
    /\ unsubRequests = 0
    /\ raisedFrom = {}
    /\ failure = "none"
    /\ log = {}
    /\ lastOp = "init"
    /\ req = [op |-> "none"]
    /\ resp = [status |-> 0]

\* the subscription lifecycle of every app factory and of a direct caller
Init ==
    /\ variant \in AppVariants \cup {"direct"}
    /\ topic \in Topics
    /\ hasSubscriber \in (IF variant = "direct" THEN {TRUE} ELSE BOOLEAN)
    /\ secret = Some("s1")
    /\ verify_signatures = TRUE
    /\ hasPrompt = TRUE
    /\ outputIsString = TRUE
    /\ phase = IF variant = "direct" THEN "direct" ELSE "created"
    /\ InitState

Next ==
    \/ Startup
    \/ TaskStart
    \/ HubSubscribeReply
    \/ SleepDone
    \/ TaskCancelled
    \/ CallSubscribeWithRetry
    \/ ShutdownBegin
    \/ ShutdownResume
    \/ HubUnsubscribeReply
    \/ WebsubVerification
    \/ VerifyChallengeCall
    \/ ReceiveWebhook(LifecyclePostRequests)
    \/ HealthCheck

Spec == Init /\ [][Next]_vars

\* a serving webhook router under every configuration of the POST handler,
\* about to receive one POST request
InitPost ==
    /\ variant = "core_webhook"
    /\ topic = "T1"
    /\ hasSubscriber = FALSE
    /\ secret \in {None, Some(""), Some("s1")}
    /\ verify_signatures \in BOOLEAN
    /\ hasPrompt \in BOOLEAN
    /\ outputIsString \in BOOLEAN
    /\ phase = "serving"
    /\ verified = FALSE
    /\ challenge = None
    /\ taskPc = "none"
    /\ attempt = 0
    /\ max_retries = DefaultMaxRetries
    /\ retry_delay = DefaultRetryDelay
    /\ subRequests = 0
    /\ accepted = FALSE
    /\ sleeps = << >>
    /\ unsubRequests = 0
    /\ raisedFrom = {}
    /\ failure = "none"
    /\ log = {}
    /\ lastOp = "init"
    /\ req \in PostRequests
    /\ resp = [status |-> 0]

\* the request a client has prepared is delivered
NextPost == ReceiveWebhook(IF lastOp = "init" THEN {req} ELSE {})

SpecPost == InitPost /\ [][NextPost]_vars

\* no app running: nothing but the subscriber-free defaults
NoApp ==
    /\ variant = "direct"
    /\ topic = "T1"
    /\ hasSubscriber = FALSE
    /\ secret = None
    /\ verify_signatures = TRUE
    /\ hasPrompt = FALSE
    /\ outputIsString = TRUE
    /\ phase = "direct"
    /\ verified = FALSE
    /\ challenge = None
    /\ taskPc = "none"
    /\ attempt = 0
    /\ max_retries = DefaultMaxRetries
    /\ retry_delay = DefaultRetryDelay
    /\ subRequests = 0
    /\ accepted = FALSE
    /\ sleeps = << >>
    /\ unsubRequests = 0
    /\ raisedFrom = {}
    /\ failure = "none"
    /\ log = {}
    /\ lastOp = "init"

\* a caller about to make one call of verify_webhook_signature
InitVerify ==
    /\ NoApp
    /\ req \in VerifyCalls
    /\ resp = [status |-> 0]

NextVerify == VerifySignatureCall(IF lastOp = "init" THEN {req} ELSE {})

SpecVerify == InitVerify /\ [][NextVerify]_vars

\* a caller holding one template, about to compile it and evaluate the result
InitTemplate ==
    /\ NoApp
    /\ req \in { [op |-> "template", template |-> t] : t \in TemplatesUpTo(MaxPieces) }
    /\ resp = [status |-> 0]

NextTemplate ==
    \/ CompileTemplate
    \/ EvaluateTemplate

SpecTemplate == InitTemplate /\ [][NextTemplate]_vars

\* the same caller on langchain_interpreter.templates
InitLiTemplate ==
    /\ NoApp
    /\ req \in { [op |-> "li_template", template |-> t] :
                    t \in LiTemplatesUpTo(MaxPieces) }
    /\ resp = [status |-> 0]

NextLiTemplate ==
    \/ LiCompileTemplate
    \/ LiEvaluateTemplate

SpecLiTemplate == InitLiTemplate /\ [][NextLiTemplate]_vars

\* compile_template has been called on one template and is about to test its
\* while condition for the first time
InitCompileSteps ==
    /\ NoApp
    /\ req \in { [op |-> "compile_template_running", template |-> t] :
                   t \in TemplatesUpTo(MaxPieces) }
    /\ resp = Looping(1, << >>)

NextCompileSteps == CompileStep

\* the call keeps running: nothing in it waits for anything
SpecCompileSteps ==
    InitCompileSteps /\ [][NextCompileSteps]_vars /\ WF_vars(CompileStep)

\* access_json_field(root, path) has been called and is about to test its
\* while condition for the first time
InitAccess ==
    /\ NoApp
    /\ req \in [op : {"access_json_field_running"}, root : Roots,
                 path : PathsUpTo(MaxPathPieces)]
    /\ resp = AccessLooping(req.root, req.path)

NextAccess == AccessStep

SpecAccess == InitAccess /\ [][NextAccess]_vars

\* the same call on the paths of at most MaxFairPathPieces pieces
InitAccessFair ==
    /\ NoApp
    /\ req \in [op : {"access_json_field_running"}, root : Roots,
                 path : PathsUpTo(MaxFairPathPieces)]
    /\ resp = AccessLooping(req.root, req.path)

\* the call keeps running: nothing in it waits for anything
SpecAccessFair ==
    InitAccessFair /\ [][NextAccess]_vars /\ WF_vars(AccessStep)


----------------------------------------------------------------------------
(* properties *)

\* the step just taken called verify_challenge
VerifyStep == lastOp' \in {"websub_verification", "verify_challenge"}
                  /\ resp'.called

\* C1: verify_challenge("subscribe", T, c) on a subscriber of topic T returns
\* c and sets verified; with a topic other than T it returns None and leaves
\* verified and the last challenge as they were, whatever mode and challenge.
C1_ChallengeEcho ==
    [][ VerifyStep =>
          /\ (req'.topic = topic /\ req'.mode = "subscribe")
                => (resp'.ret = Some(req'.challenge) /\ verified')
          /\ (req'.topic # topic)
                => (resp'.ret = None /\ UNCHANGED << verified, challenge >>)
      ]_vars

\* a subscribe challenge for the configured topic has been echoed and recorded
C1_Witness ==
    /\ lastOp \in {"websub_verification", "verify_challenge"}
    /\ resp.called
    /\ req.topic = topic
    /\ req.mode = "subscribe"
    /\ resp.ret = Some("abc123")
    /\ verified
    /\ challenge = Some("abc123")


\* C2: an unsubscribe challenge for the configured topic clears verified and is
\* echoed; a mode other than subscribe and unsubscribe gets None and changes
\* nothing; so verified only goes from false to true on a subscribe challenge
\* and from true to false on an unsubscribe challenge.
C2_VerifiedTransitions ==
    [][ /\ VerifyStep =>
             /\ (req'.topic = topic /\ req'.mode = "unsubscribe")
                   => (resp'.ret = Some(req'.challenge) /\ ~verified')
             /\ (req'.mode \notin {"subscribe", "unsubscribe"})
                   => (resp'.ret = None
                         /\ UNCHANGED << verified, challenge >>)
        /\ (verified' # verified) =>
             /\ VerifyStep
             /\ req'.topic = topic
             /\ req'.mode = IF verified' THEN "subscribe" ELSE "unsubscribe"
      ]_vars

\* an unsubscribe challenge has taken a verified subscriber back to unverified
C2_Witness ==
    /\ lastOp \in {"websub_verification", "verify_challenge"}
    /\ resp.called
    /\ req.topic = topic
    /\ req.mode = "unsubscribe"
    /\ resp.ret = Some(req.challenge)
    /\ ~verified
    /\ challenge # None

\* C3: only verify_challenge changes (verified, last challenge): no hub reply,
\* retry step, POST, health check, startup or shutdown step does; so a
\* subscriber is verified only once a subscribe challenge has been recorded,
\* however the hub answered the subscribe request.
C3_OnlyVerifyChanges ==
    /\ [](verified => challenge # None)
    /\ [][ (verified' # verified \/ challenge' # challenge) => VerifyStep ]_vars

\* the hub has accepted the subscribe request and the state is still unverified
C3_Witness ==
    /\ lastOp = "hub_subscribe_reply"
    /\ resp.kind = "response"
    /\ resp.status = 202
    /\ accepted
    /\ ~verified
    /\ challenge = None

\* C4: subscribe_with_retry sends at most max_retries subscribe requests (3 when
\* started by a lifespan), none after the hub accepted one, sleeps retry_delay
\* (5 when started by a lifespan) after each failed attempt but the
\* max_retries-th, and never any other delay.
C4_BoundedRetry ==
    /\ [](/\ subRequests <= max_retries
          /\ \A i \in 1..Len(sleeps) : sleeps[i] = retry_delay
          /\ Len(sleeps) <= subRequests
          /\ (subRequests > 0 /\ taskPc \in {"requesting", "done"})
                => Len(sleeps) = subRequests - 1
          /\ taskPc = "sleeping"
                => (Len(sleeps) = subRequests /\ subRequests < max_retries)
          /\ Len(sleeps) = 0 \/ Len(sleeps) < max_retries
          /\ (variant \in AppVariants /\ taskPc # "none")
                => (max_retries = 3 /\ retry_delay = 5))
    /\ [][ accepted => (subRequests' = subRequests /\ sleeps' = sleeps) ]_vars

\* three attempts have failed: two sleeps of the delay, none after the third
C4_Witness ==
    /\ taskPc = "done"
    /\ ~accepted
    /\ max_retries = 3
    /\ subRequests = 3
    /\ sleeps = << retry_delay, retry_delay >>
    /\ "retries_exhausted" \in log


\* the lifespans of python-interpreter: afm.interfaces.webhook and afm.cli
PythonLifespans == {"core_webhook", "core_unified"}

\* C5: in the python-interpreter lifespans a retry task still running at
\* shutdown is cancelled, and the lifespan goes on to the unsubscribe step or
\* to its end only once the task has ended cancelled; from the moment the
\* shutdown cancels, no subscribe request is sent.
C5_CancelAwaited ==
    /\ []((variant \in PythonLifespans
             /\ phase \in {"unsubscribing", "stopped"}) => ~TaskActive)
    /\ [][ (variant \in PythonLifespans) =>
             /\ (phase \in {"cancelling", "unsubscribing", "stopped"})
                   => subRequests' = subRequests
             /\ (phase = "serving" /\ phase' # "serving" /\ TaskActive)
                   => (phase' = "cancelling"
                         /\ unsubRequests' = unsubRequests)
             /\ (phase = "cancelling" /\ phase' # "cancelling")
                   => taskPc = "cancelled" ]_vars

\* a task cancelled in its retry sleep, the lifespan now past the cancellation
C5_Witness ==
    /\ variant \in PythonLifespans
    /\ phase \in {"unsubscribing", "stopped"}
    /\ taskPc = "cancelled"
    /\ subRequests = 1
    /\ Len(sleeps) = 1

\* C6: in langchain-interpreter's create_webhook_app the retry task is
\* cancelled and awaited at shutdown: once the lifespan has ended the task is
\* not pending in a sleep or in a subscribe request.
C6_CliTaskEndsWithShutdown ==
    (variant = "cli_webhook" /\ phase = "stopped")
        => taskPc \notin {"requesting", "sleeping"}

\* C7: an unsubscribe request is sent only by a shutdown step, only when the
\* subscriber is verified at that step, and at most once; when the request
\* fails, the failure is logged and nothing is raised.
C7_UnsubscribeOnlyIfVerified ==
    /\ [](/\ unsubRequests <= 1
          /\ (lastOp = "hub_unsubscribe_reply"
                /\ ~(resp.kind = "response"
                       /\ resp.status \in {200, 202, 204}))
                => (/\ log \cap {"unsubscribe_error",
                                 "unsubscribe_warning"} # {}
                    /\ "unsubscribe" \notin raisedFrom
                    /\ failure # "unsubscribe_raised"))
    /\ [][ (unsubRequests' # unsubRequests) =>
             /\ lastOp' \in {"shutdown_begin", "shutdown_resume"}
             /\ hasSubscriber
             /\ verified
             /\ unsubRequests' = unsubRequests + 1 ]_vars

\* the unsubscribe request of a verified subscriber failed on the network and
\* the shutdown went on to its end
C7_Witness ==
    /\ lastOp = "hub_unsubscribe_reply"
    /\ resp.kind = "ConnectError"
    /\ unsubRequests = 1
    /\ verified
    /\ phase = "stopped"
    /\ "unsubscribe_error" \in log

\* C8: no hub outcome raises out of subscribe(), unsubscribe() or
\* subscribe_with_retry or fails startup or shutdown; startup ends before the
\* first subscribe request is sent; while serving, POST and GET /health are
\* answered whatever the state of the handshake.
C8_HandshakeNeverFails ==
    /\ raisedFrom = {}
    /\ failure \in {"none", "agent_connect", "agent_disconnect"}
    /\ (phase = "startup_failed") => (failure = "agent_connect")
    /\ (lastOp = "startup" /\ phase = "serving" /\ hasSubscriber)
          => (taskPc = "pending" /\ subRequests = 0)
    /\ (phase = "serving")
          => (ENABLED HealthCheck
                /\ ENABLED ReceiveWebhook(LifecyclePostRequests))

\* every attempt failed on the network, and a POST is answered 200
C8_Witness ==
    /\ phase = "serving"
    /\ taskPc = "done"
    /\ ~accepted
    /\ "retries_exhausted" \in log
    /\ "subscribe_error" \in log
    /\ lastOp = "receive_webhook"
    /\ resp.status = 200


\* a POST has been handled
PostHandled == lastOp = "receive_webhook" /\ req.op = "POST"

\* the configuration under which the POST handler checks signatures
VerificationRequired ==
    verify_signatures /\ secret # None /\ secret # Some("")

\* the verifier's verdict on one header value of the last request
HeaderVerdict(h) == verify_webhook_signature(req.body, h, secret[1], "sha256")

Count(w, x) == Cardinality({i \in 1..Len(w) : w[i] = x})

Position(w, x) == CHOOSE i \in 1..Len(w) : w[i] = x

C10_EitherHeaderAccepted ==
    (PostHandled /\ VerificationRequired) =>
      IF \E h \in {req.sig256, req.sig} : HeaderVerdict(h).ret
      THEN "parse_json" \in Range(resp.steps)
      ELSE resp.status = 401

\* the signature check of the last POST passed, or none was required
SignaturePassed ==
    VerificationRequired => HeaderVerdict(HeaderOr(req.sig256, req.sig)).ret

\* the body of the last POST is one json.loads cannot parse
Unparseable == BodyKind(req.body) \in {"invalid_json", "invalid_utf8"}

\* C11: every POST whose body cannot be parsed as JSON, and that passed the
\* signature check when one is required, is answered 400 without the agent
\* being run; no such body gets another status.
C11_UnparseableIs400 ==
    (PostHandled /\ SignaturePassed /\ Unparseable) =>
      /\ resp.status = 400
      /\ resp.detail = "Invalid JSON payload"
      /\ "agent_arun" \notin Range(resp.steps)

\* the agent run of the last POST was reached and raised
AgentRaised ==
    /\ PostHandled
    /\ "agent_arun" \in Range(resp.steps)
    /\ req.agent = "raise"

GetHandled == lastOp = "websub_verification" /\ req.op = "GET"

\* C13: the GET verification endpoint answers 200 with the received
\* hub.challenge as body when a subscriber is configured, hub.topic is the
\* configured topic and hub.mode is subscribe or unsubscribe; it answers 404
\* on a topic mismatch, without a subscriber, and for any other mode.
C13_VerificationEndpoint ==
    GetHandled =>
      IF /\ hasSubscriber
         /\ req.topic = topic
         /\ req.mode \in {"subscribe", "unsubscribe"}
      THEN resp.status = 200 /\ resp.body = req.challenge
      ELSE resp.status = 404

\* a direct call of verify_webhook_signature has ended
VerifyHandled == lastOp = "verify_webhook_signature"

\* C14: verify_webhook_signature never raises, whatever the body, the secret
\* and the header (absent, empty, malformed, of arbitrary characters), and it
\* returns false when the header is absent or empty.
C14_VerifierNeverRaises ==
    VerifyHandled =>
      /\ ~resp.raised
      /\ (req.header \in {None, Some(<< >>)}) => ~resp.ret

\* the header "sha256=" followed by the HMAC-SHA256 of this body under this key
ValidHeader(key, body) == Some(Prefix256 \o hexdigest("sha256", key, body))

\* C15: for every body and secret, the header "sha256=" + hex(HMAC-SHA256(
\* secret, body)) verifies against body, and the header made for a body that
\* differs from the one verified (one byte changed) does not verify.
C15_ValidSignatureRoundTrip ==
    VerifyHandled =>
      /\ (req.header = ValidHeader(req.key, req.body))
            => (~resp.raised /\ resp.ret)
      /\ \A b \in (1..NumBodies) \ {req.body} :
            (req.header = ValidHeader(req.key, b))
               => (~resp.raised /\ ~resp.ret)

\* both cases have been seen: the header of body 1 verified against body 1
C15_Witness ==
    /\ VerifyHandled
    /\ req.body = 1
    /\ req.key = "s2"
    /\ req.header = ValidHeader("s2", 1)
    /\ resp.ret

\* the header of another body was turned down
C15_WitnessChanged ==
    /\ VerifyHandled
    /\ req.body = 2
    /\ req.header = ValidHeader(req.key, 1)
    /\ ~resp.raised
    /\ ~resp.ret

\* the digest the verifier computes under an algorithm name
ExpectedUnder(alg) ==
    hexdigest(IF alg \in {"sha1", "sha512"} THEN alg ELSE "sha256",
              req.key, req.body)

\* the header of the last call, split at its first "="
HeaderAlgo == SubSeq(req.header[1], 1, FindEq(req.header[1]) - 1)

HeaderRest ==
    SubSeq(req.header[1], FindEq(req.header[1]) + 1, Len(req.header[1]))

\* a call with a non-empty header that returned
VerifyCompared ==
    /\ VerifyHandled
    /\ req.header \notin {None, Some(<< >>)}
    /\ ~resp.raised

C16_WitnessOverride ==
    /\ VerifyHandled
    /\ req.algorithm = "sha512"
    /\ req.header = Some(Upper(Prefix1) \o hexdigest("sha1", req.key, req.body))
    /\ resp.ret

\* the last POST was answered 200 with the shaped result of the agent
PostSucceeded == PostHandled /\ resp.status = 200

\* C17: the content of a successful POST response follows the output
\* contract: plain text wraps the agent's string as {result: <string>};
\* structured passes a dict through unchanged, returns the decoded value of a
\* string that is JSON, and wraps a string that is not JSON as
\* {result: <string>}.
C17_ResponseShape ==
    PostSucceeded =>
      LET result == AgentResult(req.agent)
      IN  IF outputIsString
          THEN (result.type = "str") => resp.content = Wrapped(result)
          ELSE /\ (result.type = "dict") => resp.content = Bare(result)
               /\ (result.type = "str" /\ ~json_loads(result.value).raised)
                     => resp.content = Bare(json_loads(result.value).value)
               /\ (result.type = "str" /\ json_loads(result.value).raised)
                     => resp.content = Wrapped(result)

\* under a structured contract a JSON string was answered by its decoded dict
C17_Witness ==
    /\ PostSucceeded
    /\ ~outputIsString
    /\ req.agent = "str_json"
    /\ resp.content = Bare([type |-> "dict", value |-> "a=1"])

\* under a structured contract a string that is not JSON was wrapped
C17_WitnessFallback ==
    /\ PostSucceeded
    /\ ~outputIsString
    /\ req.agent = "str_text"
    /\ resp.content = Wrapped([type |-> "str", value |-> "hello"])

\* under the plain-text contract the string was wrapped
C17_WitnessPlain ==
    /\ PostSucceeded
    /\ outputIsString
    /\ req.agent = "str_json"
    /\ resp.content = Wrapped([type |-> "str", value |-> "{a: 1}"])

\* a template has been compiled / a compiled template has been evaluated
CompileHandled == lastOp = "compile_template"

EvaluateHandled == lastOp = "evaluate_template"

\* the terminated ${...} of a template, left to right from cursor pos: each
\* "${" that has a "}" after it, up to the first such "}"
RECURSIVE TerminatedSpans(_, _)
TerminatedSpans(t, pos) ==
    LET open == Find(t, DollarBrace, pos)
        close == Find(t, <<"}">>, open)
    IN  IF open = 0 \/ close = 0 THEN << >>
        ELSE <<[open |-> open, close |-> close]>>
               \o TerminatedSpans(t, close + 1)

\* the content of each terminated ${...} of the template at hand
Contents ==
    LET spans == TerminatedSpans(req.template, 1)
    IN  [i \in 1..Len(spans) |->
           SubSeq(req.template, spans[i].open + 2, spans[i].close - 1)]

HttpPayload == HttpPrefix \o PayloadWord

HttpHeader == HttpPrefix \o HeaderWord

\* the text of content before its first "." from position start on
UpToDot(content, start) ==
    LET rest == From(content, start)
        dot == Find(rest, <<".">>, 1)
    IN  IF dot = 0 THEN rest ELSE SubSeq(rest, 1, dot - 1)

\* what C18 says the content of a terminated ${...} becomes
Claimed(content) ==
    IF content = HttpPayload
    THEN [raised |-> FALSE, segment |-> PayloadVariable(<< >>)]
    ELSE IF StartsWith(content, HttpPayload \o <<".">>)
    THEN IF Len(content) = Len(HttpPayload) + 1
         THEN [raised |-> TRUE, message |-> "Invalid http variable format"]
         ELSE [raised |-> FALSE,
               segment |-> PayloadVariable(From(content,
                                                Len(HttpPayload) + 2))]
    ELSE IF StartsWith(content, HttpHeader \o <<".">>)
    THEN IF Len(content) = Len(HttpHeader) + 1
         THEN [raised |-> TRUE, message |-> "Invalid http variable format"]
         ELSE [raised |-> FALSE,
               segment |-> HeaderVariable(From(content,
                                               Len(HttpHeader) + 2))]
    ELSE IF StartsWith(content, HttpPrefix)
    THEN [raised |-> TRUE, message |-> "Unknown http variable prefix",
          prefix |-> UpToDot(content, Len(HttpPrefix) + 1)]
    ELSE [raised |-> FALSE,
          segment |-> LiteralSegment(DollarBrace \o content \o <<"}">>)]

IsVariable(segment) == segment.kind # "literal"

\* the contents C18 says are compile errors
ClaimedErrors == { i \in 1..Len(Contents) : Claimed(Contents[i]).raised }

\* C18: compile_template classifies the content of every terminated ${...}:
\* http:payload is PayloadVariable(""), http:payload.<rest> is
\* PayloadVariable(<rest>) and an error for an empty <rest>,
\* http:header.<name> is HeaderVariable(<name>) and an error for an empty
\* <name>, any other content starting with http: is an error naming the
\* unknown prefix, and any other content is the Literal "${content}".
C18_Classification ==
    CompileHandled =>
      IF ClaimedErrors # {}
      THEN LET first == CHOOSE i \in ClaimedErrors :
                           \A j \in ClaimedErrors : i <= j
               claimed == Claimed(Contents[first])
           IN  /\ resp.raised
               /\ resp.error.message = claimed.message
               /\ (claimed.message = "Unknown http variable prefix")
                     => resp.error.arg = claimed.prefix
      ELSE /\ ~resp.raised
           /\ SelectSeq(resp.segments, IsVariable)
                = SelectSeq([i \in 1..Len(Contents) |->
                               Claimed(Contents[i]).segment], IsVariable)
           /\ \A i \in 1..Len(Contents) :
                 Claimed(Contents[i]).segment \in Range(resp.segments)

\* "${http:payload.f}" compiled to PayloadVariable("f")
C18_Witness ==
    /\ CompileHandled
    /\ req.template = DollarBrace \o HttpPayload \o <<".", "f", "}">>
    /\ resp.segments = <<PayloadVariable(<<"f">>)>>

\* "${http:header.}" was refused
C18_WitnessEmptyName ==
    /\ CompileHandled
    /\ req.template = DollarBrace \o HttpHeader \o <<".", "}">>
    /\ resp.raised
    /\ resp.error.message = "Invalid http variable format"

\* "${http:x.f}" was refused naming the prefix x
C18_WitnessUnknown ==
    /\ CompileHandled
    /\ req.template = DollarBrace \o HttpPrefix \o <<"x", ".", "f", "}">>
    /\ resp.raised
    /\ resp.error = [message |-> "Unknown http variable prefix",
                     arg |-> <<"x">>]

\* "x${x}" compiled to two literals, the second with its wrapper
C18_WitnessLiteral ==
    /\ CompileHandled
    /\ req.template = <<"x", "$", "{", "x", "}">>
    /\ resp.segments = <<LiteralSegment(<<"x">>),
                         LiteralSegment(<<"$", "{", "x", "}">>)>>

\* the template at hand has no "${" with a "}" after it
NoVariable == TerminatedSpans(req.template, 1) = << >>

\* C19: a template without any ${...} compiles, and evaluates to itself for
\* every payload and every headers value, None included.
C19_LiteralOnlyIdentity ==
    /\ (CompileHandled /\ NoVariable) => ~resp.raised
    /\ (EvaluateHandled /\ NoVariable) =>
          (~resp.raised /\ resp.text = req.template)

\* "x}${" evaluated to itself without headers
C19_Witness ==
    /\ EvaluateHandled
    /\ req.template = <<"x", "}", "$", "{">>
    /\ req.headers = None
    /\ resp.text = <<"x", "}", "$", "{">>

\* the cursor when the scan ends: after the last terminated ${...}
Cursor ==
    LET spans == TerminatedSpans(req.template, 1)
    IN  IF spans = << >> THEN 1 ELSE spans[Len(spans)].close + 1

\* the scan meets a "${" that has no "}" after it
MeetsUnterminated ==
    /\ ClaimedErrors = {}
    /\ Find(req.template, DollarBrace, Cursor) # 0

\* C20: a "${" with no "}" after it raises no error: the rest of the template
\* from the cursor (the end of the last consumed variable, or the start) is
\* one trailing Literal, after the segments compiled before it.
C20_UnterminatedIsLiteral ==
    (CompileHandled /\ MeetsUnterminated) =>
      /\ ~resp.raised
      /\ Len(resp.segments) >= 1
      /\ resp.segments[Len(resp.segments)]
           = LiteralSegment(From(req.template, Cursor))
      /\ SubSeq(resp.segments, 1, Len(resp.segments) - 1)
           = compile_template(SubSeq(req.template, 1, Cursor - 1)).segments

\* "${x}x${" kept the segment of ${x} and ended with the literal "x${"
C20_Witness ==
    /\ CompileHandled
    /\ req.template = <<"$", "{", "x", "}", "x", "$", "{">>
    /\ resp.segments = <<LiteralSegment(<<"$", "{", "x", "}">>),
                         LiteralSegment(<<"x", "$", "{">>)>>

\* "x}${" compiled to the one literal "x}${", from the start of the template
C20_WitnessFromStart ==
    /\ CompileHandled
    /\ req.template = <<"x", "}", "$", "{">>
    /\ resp.segments = <<LiteralSegment(<<"x", "}", "$", "{">>)>>

\* the running compile_template call has ended
CompileEnded == resp.pc \in {"returned", "raised"}

\* C21: compile_template terminates on every template: each loop iteration
\* that goes on has moved the cursor forward, the call ends with a
\* CompiledTemplate or a TemplateCompilationError, and it changes nothing but
\* its own cursor and segments.
C21_CompileTerminates ==
    /\ [][ /\ resp'.pc = "loop" => resp'.pos > resp.pos
           /\ UNCHANGED << cfgVars, subscriberVars, phase, taskVars,
                           unsubRequests, raisedFrom, failure, log, req >>
         ]_vars
    /\ [](CompileEnded =>
            LET result == compile_template(req.template)
            IN  /\ (resp.pc = "raised") <=> result.raised
                /\ resp.segments = result.segments
                /\ resp.error = result.error)
    /\ <>CompileEnded

\* "${x}x${x}" was compiled in three iterations, the cursor ending past it
C21_Witness ==
    /\ req.op = "compile_template_running"
    /\ req.template = <<"$", "{", "x", "}", "x", "$", "{", "x", "}">>
    /\ resp.pc = "returned"
    /\ resp.pos = 10
    /\ Len(resp.segments) = 3

\* ---------------------------------------------------------------------
\* Array index accessors

AccessEnded == resp.pc \in {"returned", "raised"}

\* the decimal text of an index, as it stands between the brackets
IndexText(i) ==
    CASE i = -1 -> <<"-", "1">>
      [] i = 0  -> <<"0">>
      [] i = 1  -> <<"1">>

\* the loop is about to apply the accessor [i] to an array
AtIndexOfArray(i) ==
    /\ resp.pc = "loop"
    /\ resp.current.type = "list"
    /\ StartsWith(resp.remaining, <<"[">> \o IndexText(i) \o <<"]">>)

\* C22: the accessor [i] applied to an array of length n yields the element
\* at position i when 0 <= i < n, and fails with the JSONAccessError "Array
\* index out of bounds" for every i >= n and every negative i; a negative
\* index never selects an element counted from the end.
C22_IndexBounds ==
    [][ \A i \in -1..1 :
          AtIndexOfArray(i) =>
            IF 0 <= i /\ i < Len(resp.current.items)
            THEN /\ resp'.pc = "loop"
                 /\ resp'.current = resp.current.items[i + 1]
            ELSE /\ resp'.pc = "raised"
                 /\ resp'.error = "Array index out of bounds" ]_vars

\* f[-1] on {"f": ["a", {"f": "b"}]} has failed with "out of bounds"
C22_Witness ==
    /\ lastOp = "access_step"
    /\ req.path = <<"f", "[", "-", "1", "]">>
    /\ req.root.type = "dict"
    /\ GetKey(req.root, <<"f">>).type = "list"
    /\ resp.pc = "raised"
    /\ resp.error = "Array index out of bounds"

\* f[1] on the same root has returned the second element
C22_WitnessInRange ==
    /\ lastOp = "access_step"
    /\ req.path = <<"f", "[", "1", "]">>
    /\ resp.pc = "returned"
    /\ resp.current = JDict(<<Entry(<<"f">>, JStr(<<"b">>))>>)

\* [1] on ["v"] has failed: the index equals the length
C22_WitnessAtLength ==
    /\ lastOp = "access_step"
    /\ req.path = <<"[", "1", "]">>
    /\ req.root = JList(<<JStr(<<"v">>)>>)
    /\ resp.pc = "raised"
    /\ resp.error = "Array index out of bounds"

\* ---------------------------------------------------------------------
\* Empty field names

\* the path holds an empty field name: two dots in a row, or a dot right
\* before a bracket
HasEmptyFieldName(path) ==
    \/ Find(path, <<".", ".">>, 1) # 0
    \/ Find(path, <<".", "[">>, 1) # 0

\* C23: access_json_field fails with JSONAccessError for every path that holds
\* an empty field name, from ".." or from ".[", whatever the payload.
C23_EmptyFieldNameFails ==
    (AccessEnded /\ HasEmptyFieldName(req.path)) => resp.pc = "raised"

\* C23, the ".." half alone: a path with two dots in a row fails
C23_DoubleDotFails ==
    (AccessEnded /\ Find(req.path, <<".", ".">>, 1) # 0) => resp.pc = "raised"

\* ---------------------------------------------------------------------
\* Failures of evaluate_template

\* the PayloadVariable segment's path cannot be resolved on the payload
PayloadUnresolved(segment) ==
    /\ segment.kind = "payload"
    /\ segment.path # << >>
    /\ access_json_field(req.payload, segment.path).raised

\* the HeaderVariable segment finds no headers at all
HeadersAbsent(segment) == segment.kind = "header" /\ req.headers = None

\* the HeaderVariable segment finds headers, none under its name
HeaderMissing(segment) ==
    /\ segment.kind = "header"
    /\ req.headers # None
    /\ \A i \in 1..Len(req.headers[1]) :
          Lower(req.headers[1][i].key) # Lower(segment.name)

Unresolved(segment) ==
    PayloadUnresolved(segment) \/ HeadersAbsent(segment)
      \/ HeaderMissing(segment)

\* the first segment of the compiled template that cannot be resolved
FirstUnresolved ==
    CHOOSE i \in 1..Len(req.compiled) :
       /\ Unresolved(req.compiled[i])
       /\ \A j \in 1..(i - 1) : ~Unresolved(req.compiled[j])

\* C24 as stated: evaluate_template raises TemplateEvaluationError only when
\* the path of a PayloadVariable cannot be resolved; a HeaderVariable whose
\* header is not present, and headers being absent, never make it fail.
C24_OnlyPayloadFails ==
    (EvaluateHandled /\ resp.raised) =>
        \E i \in 1..Len(req.compiled) : PayloadUnresolved(req.compiled[i])

\* C24, amended: evaluate_template raises TemplateEvaluationError exactly
\* when some segment cannot be resolved, and the error is that of the first
\* such segment: a PayloadVariable whose path fails, a HeaderVariable met
\* without headers, or a HeaderVariable whose name matches no header key
\* whatever the case of its letters. Literal segments never make it fail.
C24_UnresolvedFails ==
    EvaluateHandled =>
      /\ resp.raised <=>
           \E i \in 1..Len(req.compiled) : Unresolved(req.compiled[i])
      /\ resp.raised =>
           LET segment == req.compiled[FirstUnresolved]
           IN  resp.error =
                 IF PayloadUnresolved(segment)
                 THEN [message |-> "Cannot resolve payload variable",
                       arg |-> segment.path]
                 ELSE IF HeadersAbsent(segment)
                 THEN [message |-> "no headers provided",
                       arg |-> segment.name]
                 ELSE [message |-> "header not found", arg |-> segment.name]

\* "${http:header.F}" evaluated with headers {"x": "1"} has failed
C24_Witness ==
    /\ EvaluateHandled
    /\ req.template = DollarBrace \o HttpPrefix \o HeaderWord
                        \o <<".", "F", "}">>
    /\ req.headers = Some(<<Entry(<<"x">>, JStr(<<"1">>))>>)
    /\ resp.raised
    /\ resp.error.message = "header not found"

\* the same template evaluated without headers has failed
C24_WitnessNoHeaders ==
    /\ EvaluateHandled
    /\ req.template = DollarBrace \o HttpPrefix \o HeaderWord
                        \o <<".", "F", "}">>
    /\ req.headers = None
    /\ resp.raised
    /\ resp.error.message = "no headers provided"

\* "${http:payload.f}" evaluated on ["v"] has failed
C24_WitnessPayload ==
    /\ EvaluateHandled
    /\ req.template = DollarBrace \o HttpPrefix \o PayloadWord
                        \o <<".", "f", "}">>
    /\ req.payload = JList(<<JStr(<<"v">>)>>)
    /\ resp.raised
    /\ resp.error.message = "Cannot resolve payload variable"

\* ---------------------------------------------------------------------
\* langchain_interpreter.templates: unresolved references

LiEvaluateHandled == lastOp = "li_evaluate_template"

\* the header of the request that the name selects, if any
LiHeaderFound(name) ==
    /\ req.headers # None
    /\ \E i \in 1..Len(req.headers[1]) :
          Lower(req.headers[1][i].key) = Lower(name)

\* the segment is a reference that cannot be resolved on the request
LiUnresolved(segment) ==
    \/ segment.kind = "header" /\ ~LiHeaderFound(segment.name)
    \/ /\ segment.kind = "payload"
       /\ segment.path # << >>
       /\ li_access_json_field(req.payload, segment.path).raised

\* what a segment contributes: nothing when unresolved, and otherwise what
\* afm-core's evaluator makes of the segment alone
LiContribution(segment) ==
    IF LiUnresolved(segment) THEN << >>
    ELSE IF segment.kind = "payload" /\ segment.path # << >>
    THEN LET v == li_access_json_field(req.payload, segment.path).current
         IN  IF v.type = "str" THEN v.text ELSE json_dumps_value(v)
    ELSE evaluate_template(<<segment>>, req.payload, req.headers).text

\* C25: in langchain_interpreter.templates evaluate_template never fails on
\* an unresolved reference: a HeaderVariable whose header is missing, headers
\* being None and a PayloadVariable whose path cannot be resolved each
\* contribute the empty string, and the other segments contribute as usual.
C25_UnresolvedIsEmpty ==
    LiEvaluateHandled =>
      /\ ~resp.raised
      /\ resp.text =
           Concat([i \in 1..Len(req.compiled) |->
                     LiContribution(req.compiled[i])])

\* "${http:header.y}x${http:payload.f}" on ["v"] with headers {"x": "1"}:
\* both references are unresolved and the result is "x"
C25_Witness ==
    /\ LiEvaluateHandled
    /\ Len(req.compiled) = 3
    /\ req.compiled[1].kind = "header"
    /\ req.compiled[2].kind = "literal"
    /\ req.compiled[3].kind = "payload"
    /\ LiUnresolved(req.compiled[1])
    /\ LiUnresolved(req.compiled[3])
    /\ req.headers # None
    /\ resp.text = <<"x">>

\* the same with headers None
C25_WitnessNoHeaders ==
    /\ LiEvaluateHandled
    /\ Len(req.compiled) = 2
    /\ req.compiled[1].kind = "header"
    /\ req.compiled[2] = LiteralSegment(<<"x">>)
    /\ req.headers = None
    /\ resp.text = <<"x">>

\* ---------------------------------------------------------------------
\* Header lookup

\* the positions of the headers whose key is the name up to letter case
HeaderHits(name) ==
    IF req.headers = None THEN {}
    ELSE { i \in 1..Len(req.headers[1]) :
             Lower(req.headers[1][i].key) = Lower(name) }

\* the values in order, with ", " between neighbours
RECURSIVE CommaJoined(_)
CommaJoined(values) ==
    IF values = << >> THEN << >>
    ELSE IF Len(values) = 1 THEN values[1].text
    ELSE values[1].text \o <<",", " ">> \o CommaJoined(Tail(values))

\* the text of the first header under the name
HeaderText(name) ==
    LET first == CHOOSE i \in HeaderHits(name) :
                    \A j \in HeaderHits(name) : i <= j
        value == req.headers[1][first].val
    IN  IF value.type = "list" THEN CommaJoined(value.items) ELSE value.text

MatchedHeader(segment) ==
    segment.kind = "header" /\ HeaderHits(segment.name) # {}

\* C26: a HeaderVariable is resolved by comparing its name with the header
\* keys without regard to letter case; a header that holds several values
\* contributes them joined in order with ", ", one that holds a single string
\* contributes it unchanged.
C26_HeaderLookup ==
    EvaluateHandled =>
      /\ (\A i \in 1..Len(req.compiled) :
             req.compiled[i].kind = "literal" \/ MatchedHeader(req.compiled[i]))
           => ~resp.raised
      /\ ~resp.raised =>
           resp.text =
             Concat([i \in 1..Len(req.compiled) |->
                       IF req.compiled[i].kind = "header"
                       THEN HeaderText(req.compiled[i].name)
                       ELSE evaluate_template(<<req.compiled[i]>>,
                                              req.payload, req.headers).text])

\* "${http:header.F}" with headers {"x": "1", "f": ["a", "b"]} is "a, b"
C26_Witness ==
    /\ EvaluateHandled
    /\ req.compiled = <<HeaderVariable(<<"F">>)>>
    /\ req.headers # None
    /\ Len(req.headers[1]) = 2
    /\ req.headers[1][2].key = <<"f">>
    /\ req.headers[1][2].val.type = "list"
    /\ ~resp.raised
    /\ resp.text = <<"a", ",", " ", "b">>

\* "${http:header.F}" with headers {"f": "v", "F": "w"} is "v"
C26_WitnessSingle ==
    /\ EvaluateHandled
    /\ req.compiled = <<HeaderVariable(<<"F">>)>>
    /\ req.headers # None
    /\ req.headers[1][1] = Entry(<<"f">>, JStr(<<"v">>))
    /\ ~resp.raised
    /\ resp.text = <<"v">>

\* ---------------------------------------------------------------------
\* access_json_field as a whole

\* v is root or a value held somewhere inside root
RECURSIVE IsNested(_, _)
IsNested(v, root) ==
    \/ v = root
    \/ /\ root.type = "list"
       /\ \E i \in 1..Len(root.items) : IsNested(v, root.items[i])
    \/ /\ root.type = "dict"
       /\ \E i \in 1..Len(root.items) : IsNested(v, root.items[i].val)

\* the messages of the JSONAccessErrors access_json_field raises
AccessErrors ==
    { "Cannot access field on non-object", "Field not found",
      "Invalid bracket notation in path", "Invalid array index",
      "Cannot access index on non-array", "Array index out of bounds",
      "Empty field name in path" }

\* C27: access_json_field terminates on every root and path: an iteration
\* that continues leaves a strictly shorter remainder and changes nothing but
\* the call's own current value and remainder; the call returns root for the
\* empty path, and otherwise a value held inside root, the one the field and
\* index steps lead to, or it fails with a JSONAccessError and no other error.
C27_AccessTerminates ==
    /\ [][ /\ resp'.pc = "loop" => Len(resp'.remaining) < Len(resp.remaining)
           /\ UNCHANGED << cfgVars, subscriberVars, phase, taskVars,
                           unsubRequests, raisedFrom, failure, log, req >>
         ]_vars
    /\ [](resp.pc = "returned" =>
            /\ IsNested(resp.current, req.root)
            /\ req.path = << >> => resp.current = req.root
            /\ ~access_json_field(req.root, req.path).raised
            /\ resp.current = access_json_field(req.root, req.path).current)
    /\ [](resp.pc = "raised" =>
            /\ resp.error \in AccessErrors
            /\ access_json_field(req.root, req.path).raised
            /\ resp.error = access_json_field(req.root, req.path).error)
    /\ <>AccessEnded

\* f.[1] on {"f": ["a", {"f": "b"}]} has returned {"f": "b"} after its steps
C27_Witness ==
    /\ lastOp = "access_step"
    /\ req.path = <<"f", ".", "[", "1", "]">>
    /\ resp.pc = "returned"
    /\ resp.current = JDict(<<Entry(<<"f">>, JStr(<<"b">>))>>)
    /\ resp.current # req.root

\* the empty path has returned the root
C27_WitnessEmptyPath ==
    /\ lastOp = "access_step"
    /\ req.path = << >>
    /\ resp.pc = "returned"
    /\ resp.current = req.root

\* [x] has failed with a JSONAccessError
C27_WitnessRaised ==
    /\ lastOp = "access_step"
    /\ req.path = <<"[", "x", "]">>
    /\ resp.pc = "raised"
    /\ resp.error = "Invalid array index"

\* ---------------------------------------------------------------------
\* Composition of accessors

\* the ways to cut the path at hand into p and q, where q starts with "." or
\* "[" and p does not end with "."
Cuts ==
    { k \in 0..(Len(req.path) - 1) :
        /\ req.path[k + 1] \in {".", "["}
        /\ k > 0 => req.path[k] # "." }

\* C28: accessors compose left to right: when access_json_field(root, p)
\* succeeds with v and p does not end with ".", then for every q that starts
\* with "." or "[" the call on p + q ends as the call on v with q does, with
\* the same value or with a failure.
C28_Composition ==
    AccessEnded =>
      \A k \in Cuts :
         LET p == SubSeq(req.path, 1, k)
             q == From(req.path, k + 1)
             first == access_json_field(req.root, p)
             rest == access_json_field(first.current, q)
         IN  ~first.raised =>
               /\ (resp.pc = "raised") = rest.raised
               /\ resp.pc = "returned" => resp.current = rest.current

\* f[1].f on {"f": ["a", {"f": "b"}]} has returned "b": it can be cut after
\* f and after f[1]
C28_Witness ==
    /\ lastOp = "access_step"
    /\ req.path = <<"f", "[", "1", "]", ".", "f">>
    /\ Cuts = {1, 4}
    /\ resp.pc = "returned"
    /\ resp.current = JStr(<<"b">>)

\* f[0].f on the same root has failed as .f on "a" does
C28_WitnessFailure ==
    /\ lastOp = "access_step"
    /\ req.path = <<"f", "[", "0", "]", ".", "f">>
    /\ resp.pc = "raised"
    /\ resp.error = "Cannot access field on non-object"

\* ---------------------------------------------------------------------
\* The verification endpoint and the subscription state

\* C29: whenever the GET verification endpoint answers 404, verified and
\* last_challenge are what they were before the request: the state changes
\* only on verification requests answered 200, for every hub.mode, hub.topic
\* and hub.challenge, the empty challenge included.
C29_NotFoundKeepsState ==
    [][ (lastOp' = "websub_verification" /\ resp'.status = 404)
          => UNCHANGED << verified, challenge >> ]_vars

\* C29 without the empty challenge: a 404 to a request whose hub.challenge is
\* not empty leaves the state as it was
C29_NotFoundKeepsStateNonEmpty ==
    [][ (lastOp' = "websub_verification" /\ resp'.status = 404
           /\ req'.challenge # "")
          => UNCHANGED << verified, challenge >> ]_vars

\* ---------------------------------------------------------------------
\* Compilation keeps the template

\* the text a segment was compiled from
SourceForm(segment) ==
    IF segment.kind = "literal" THEN segment.text
    ELSE IF segment.kind = "payload"
    THEN IF segment.path = << >>
         THEN DollarBrace \o HttpPrefix \o PayloadWord \o <<"}">>
         ELSE DollarBrace \o HttpPrefix \o PayloadWord \o <<".">>
                \o segment.path \o <<"}">>
    ELSE DollarBrace \o HttpPrefix \o HeaderWord \o <<".">>
           \o segment.name \o <<"}">>

\* C30: compilation is lossless: for every template that compiles, the
\* source forms of its segments, concatenated in order, are the template: a
\* Literal's text, "${http:payload}" for the whole payload,
\* "${http:payload." path "}" for a path and "${http:header." name "}" for a
\* header.
C30_CompilationLossless ==
    (CompileHandled /\ ~resp.raised) =>
        Concat([i \in 1..Len(resp.segments) |-> SourceForm(resp.segments[i])])
          = req.template

\* "${http:payload.f}" has compiled into a payload variable
C30_Witness ==
    /\ CompileHandled
    /\ ~resp.raised
    /\ req.template = DollarBrace \o HttpPrefix \o PayloadWord
                        \o <<".", "f", "}">>
    /\ resp.segments = <<PayloadVariable(<<"f">>)>>

\* "x${x}}" has compiled into three literals
C30_WitnessLiterals ==
    /\ CompileHandled
    /\ ~resp.raised
    /\ req.template = <<"x">> \o DollarBrace \o <<"x", "}", "}">>
    /\ resp.segments = <<LiteralSegment(<<"x">>),
                         LiteralSegment(DollarBrace \o <<"x", "}">>),
                         LiteralSegment(<<"}">>)>>

\* "${http:payload}" has compiled
C30_WitnessWholePayload ==
    /\ CompileHandled
    /\ ~resp.raised
    /\ resp.segments = <<PayloadVariable(<< >>)>>

\* "${http:header.F}" has compiled
C30_WitnessHeader ==
    /\ CompileHandled
    /\ ~resp.raised
    /\ resp.segments = <<HeaderVariable(<<"F">>)>>

====
